---------------------------- MODULE Spec2Model ----------------------------
(***************************************************************************)
(* Trading journal backend: the position reconstructor of                  *)
(* backend/main.py (parse_bingx_futures, parse_simple_csv) and the         *)
(* position store of backend/database.py.                                  *)
(*                                                                         *)
(* Conventions of the model                                                *)
(*  - A Python float is an exact rational <<n, d>> in lowest terms with    *)
(*    d > 0; the float NaN is <<0, 0>>.  Binary rounding error of float    *)
(*    arithmetic is not modelled.                                          *)
(*  - A Python dict is a function whose DOMAIN is the set of its keys.     *)
(*  - A timestamp is a whole number of seconds >= 1; NaT is 0.             *)
(*  - hashlib.md5(s).hexdigest()[:16] is taken to be injective on the      *)
(*    strings that occur: a token is the tuple of the parts of s.          *)
(***************************************************************************)
EXTENDS Integers, Sequences, FiniteSets, TLC

VARIABLES
    columns,         \* df.columns: the column names of the data frame
    df,              \* the data frame: a sequence of rows (dicts of cells)
    pc,              \* position of the running parser / handler
    idx,             \* index of the next row of df in the row loop
    open_positions,  \* the open-lot table (insertion-ordered dict)
    positions,       \* the list of emitted positions
    err,             \* "none", or the exception that left the parser
    db,              \* table positions of the store, in insertion order
    new_positions,   \* upload_file: counter of accepted inserts
    ins,             \* upload_file: index of the next position to insert
    uploads,         \* number of upload requests started on this file
    prev_positions,  \* what the previous request on this file reconstructed
    db_before,       \* the table as it was when the current request began
    ledger,          \* history: what each lot was opened with and has paid out
    response,        \* what the last GET or scan request answered
    all_files,       \* the files of the scanned folder, as the glob lists them
    processed_files, \* the processed_files table: filename -> its row
    scan             \* the counters of the running scan-folder request

vars == <<columns, df, pc, idx, open_positions, positions, err, db,
          new_positions, ins, uploads, prev_positions, db_before, ledger,
          response, all_files, processed_files, scan>>

parserVars == <<columns, df, pc, idx, open_positions, positions, err>>
storeVars == <<db, new_positions, ins, uploads, prev_positions, db_before, response,
               all_files, processed_files, scan>>
scanVars == <<all_files, processed_files, scan>>

---------------------------------------------------------------------------
(* Bounds of the model *)

\* longest data frame explored by the row-by-row specification
MaxRows == 3
\* longest data frame explored by the upload specification
MaxUploadRows == 3
\* number of times the same file is uploaded
MaxUploads == 2
\* longest data frame supplied in several orders
MaxOrderRows == 3
\* number of insert_position calls in progress at once
MaxCallers == 2

---------------------------------------------------------------------------
(* Floats as exact rationals *)

RECURSIVE GCD(_, _)
GCD(a, b) == IF b = 0 THEN a ELSE GCD(b, a % b)

Abs(n) == IF n < 0 THEN -n ELSE n

NaN == <<0, 0>>

IsNaN(x) == x[2] = 0

Norm(n, d) ==
    IF d = 0 THEN NaN
    ELSE LET g == GCD(Abs(n), Abs(d))
             s == IF d < 0 THEN -1 ELSE 1
         IN  <<(s * n) \div g, (s * d) \div g>>

Q(n) == <<n, 1>>

Add(x, y) == IF IsNaN(x) \/ IsNaN(y) THEN NaN
             ELSE Norm(x[1] * y[2] + y[1] * x[2], x[2] * y[2])

Sub(x, y) == IF IsNaN(x) \/ IsNaN(y) THEN NaN
             ELSE Norm(x[1] * y[2] - y[1] * x[2], x[2] * y[2])

Mul(x, y) == IF IsNaN(x) \/ IsNaN(y) THEN NaN
             ELSE Norm(x[1] * y[1], x[2] * y[2])

\* x / y for y # 0.0 (Python raises ZeroDivisionError before dividing by 0.0)
Div(x, y) == IF IsNaN(x) \/ IsNaN(y) THEN NaN
             ELSE Norm(x[1] * y[2], x[2] * y[1])

\* Python comparisons: every comparison with NaN is False
IsZero(x) == ~IsNaN(x) /\ x[1] = 0
Lt(x, y) == ~IsNaN(x) /\ ~IsNaN(y) /\ x[1] * y[2] < y[1] * x[2]
Le(x, y) == ~IsNaN(x) /\ ~IsNaN(y) /\ x[1] * y[2] <= y[1] * x[2]
Gt(x, y) == Lt(y, x)
Ge(x, y) == Le(y, x)

AbsQ(x) == IF IsNaN(x) THEN NaN ELSE <<Abs(x[1]), x[2]>>

\* floor of n / d for d > 0
FloorDiv(n, d) == IF n >= 0 THEN n \div d ELSE -((-n + d - 1) \div d)

\* round(x, 2): to the nearest multiple of 0.01, ties to the even one
Round2(x) ==
    IF IsNaN(x) THEN NaN
    ELSE LET n  == x[1] * 100
             d  == x[2]
             f  == FloorDiv(n, d)
             r2 == 2 * (n - f * d)
             k  == IF r2 > d THEN f + 1
                   ELSE IF r2 < d THEN f
                   ELSE IF f % 2 = 0 THEN f ELSE f + 1
         IN  Norm(k, 100)

---------------------------------------------------------------------------
(* Dicts *)

\* {**a, **b}
Merge(a, b) ==
    [k \in DOMAIN a \cup DOMAIN b |-> IF k \in DOMAIN b THEN b[k] ELSE a[k]]

\* d.get(k, default)
Get(d, k, default) == IF k \in DOMAIN d THEN d[k] ELSE default

---------------------------------------------------------------------------
(* Cells of a data frame *)

\* A time cell is <<"ts", t>> (a parseable timestamp, t >= 1 seconds),
\* <<"nan", 0>> (an empty cell) or <<"bad", 0>> (text that is no timestamp).
NaT == 0

\* pd.to_datetime(column, errors='coerce'), one cell
to_datetime_coerce(cell) == IF cell[1] = "ts" THEN cell[2] ELSE NaT

\* Timestamp.isoformat(); NaT.isoformat() is the string "NaT"
isoformat(t) == IF t = NaT THEN <<"NaT", 0>> ELSE <<"iso", t>>

\* the lot's entry time lost on reading it back
to_datetime_iso_lost(s) == NaT

\* pd.to_datetime(string) of a string isoformat() wrote
to_datetime_iso(s) == IF s[1] = "iso" THEN s[2] ELSE NaT

\* A number cell is <<"num", q>>, <<"nan", NaN>> (an empty cell read as the
\* float NaN) or <<"bad", NaN>> (text float() rejects with ValueError).
FloatRaises(cell) == cell[1] = "bad"
Float(cell) == IF cell[1] = "num" THEN cell[2] ELSE NaN

\* row.get('Pair', '').replace('-', '')
StripDash(pair) ==
    CASE pair = "BTC-USDT" -> "BTCUSDT"
      [] OTHER -> pair

\* The 'Leverage' cell is the text of a whole number followed by X, kept as
\* <<n, "X">>; float(cell.replace('X', '')) is n.
ParseLeverage(cell) == Q(cell[1])

\* The 'Realized PNL' cell: <<"float", q>>, <<"nan", NaN>> (empty cell),
\* <<"str", q>> (the number q followed by a unit, "5 USDT") or
\* <<"blank", NaN>> (a string of white space only).
ParseRealizedPnl(cell) ==
    CASE cell[1] = "str"   -> cell[2]
      [] cell[1] = "blank" -> Q(0)
      [] cell[1] = "nan"   -> Q(0)
      [] OTHER             -> cell[2]

---------------------------------------------------------------------------
(* df.sort_values(time_col): ascending, NaT last, equal keys kept in their  *)
(* order of arrival (the insertion sort numpy runs on short arrays).        *)

\* row a must come after row b
SortsAfter(a, b) ==
    \/ a.Time = NaT /\ b.Time # NaT
    \/ a.Time # NaT /\ b.Time # NaT /\ a.Time > b.Time

\* the one element of a singleton: Only({F(x) : x \in {e}}) is F(e) with e
\* evaluated once
Only(S) == CHOOSE x \in S : TRUE

RECURSIVE InsertSorted(_, _)
InsertSorted(s, r) ==
    IF s = <<>> THEN <<r>>
    ELSE IF SortsAfter(s[Len(s)], r)
         THEN Append(InsertSorted(SubSeq(s, 1, Len(s) - 1), r), s[Len(s)])
         ELSE Append(s, r)

\* the frame left in the order it was supplied
sort_values_asSupplied(s) == s

RECURSIVE sort_values(_)
sort_values(s) ==
    IF s = <<>> THEN <<>>
    ELSE Only({InsertSorted(head, s[Len(s)]) : head \in {sort_values(SubSeq(s, 1, Len(s) - 1))}})

---------------------------------------------------------------------------
(* The open-lot table: a dict in insertion order, kept as a sequence of     *)
(* [key, pos] entries.                                                      *)

Keys(op) == {op[i].key : i \in DOMAIN op}

Lookup(op, k) == op[CHOOSE i \in DOMAIN op : op[i].key = k].pos

\* op[k] = lot: a new key goes last, a present key keeps its place
Store(op, k, lot) ==
    IF k \in Keys(op)
    THEN [i \in DOMAIN op |-> IF op[i].key = k THEN [key |-> k, pos |-> lot] ELSE op[i]]
    ELSE Append(op, [key |-> k, pos |-> lot])

\* del op[k]
Delete(op, k) ==
    LET Keep(e) == e.key # k
    IN  SelectSeq(op, Keep)

\* what one step of a parser leaves behind
Outcome(op, ps, e) == [open_positions |-> op, positions |-> ps, err |-> e]

---------------------------------------------------------------------------
(* Identity tokens: md5 of the formatted string, as the tuple of its parts  *)

\* f"{pair}_{direction}_{time.isoformat()}_{deal_price}_{quantity}"
LotId(pair, direction, time, price, quantity) ==
    <<pair, direction, isoformat(time), price, quantity>>

\* a token that also counts the requests served so far
ClosedId_counter(pair, direction, entry_time, time, quantity, price) ==
    <<pair, direction, entry_time, isoformat(time), quantity, price, uploads>>

\* f"{pair}_{direction}_{pos['entry_time']}_{time.isoformat()}_{quantity}_{deal_price}"
ClosedId(pair, direction, entry_time, time, quantity, price) ==
    <<pair, direction, entry_time, isoformat(time), quantity, price>>

---------------------------------------------------------------------------
(* parse_bingx_futures: the body of the row loop *)

\* x != y on floats
Ne(x, y) == IsNaN(x) \/ IsNaN(y) \/ x # y

\* int(x): truncation toward zero
Trunc(x) == IF x[1] >= 0 THEN x[1] \div x[2] ELSE -((-x[1]) \div x[2])

\* close_ratio >= 0.99
FullCloseThreshold == <<99, 100>>

\* the plain mean of the two prices, the quantities forgotten
WeightedAverage_plain(entry_price, total_quantity, deal_price, quantity) ==
    Div(Add(entry_price, deal_price), Q(2))

\* (pos['entry_price'] * pos['total_quantity'] + deal_price * quantity) / total_qty
WeightedAverage(entry_price, total_quantity, deal_price, quantity) ==
    Div(Add(Mul(entry_price, total_quantity), Mul(deal_price, quantity)),
        Add(total_quantity, quantity))

\* the branches 'Open Long' and 'Open Short'
OpenFill(op, ps, pair, direction, time, deal_price, quantity, fee, leverage) ==
    LET key == <<pair, direction>>
    IN  IF key \notin Keys(op)
        THEN Outcome(Store(op, key,
                 [id             |-> LotId(pair, direction, time, deal_price, quantity),
                  symbol         |-> pair,
                  pair           |-> pair,
                  direction      |-> direction,
                  entry_time     |-> isoformat(time),
                  entry_price    |-> deal_price,
                  quantity       |-> quantity,
                  entry_fee      |-> fee,
                  leverage       |-> Trunc(leverage),
                  total_quantity |-> quantity]), ps, "none")
        ELSE LET pos       == Lookup(op, key)
                 total_qty == Add(pos.total_quantity, quantity)
             IN  IF IsZero(total_qty)
                 THEN Outcome(op, ps, "ZeroDivisionError")
                 ELSE Outcome(Store(op, key,
                          [pos EXCEPT
                              !.entry_price    = WeightedAverage(pos.entry_price,
                                                     pos.total_quantity, deal_price, quantity),
                              !.total_quantity = total_qty,
                              !.quantity       = total_qty,
                              !.entry_fee      = Add(pos.entry_fee, fee)]), ps, "none")

\* pnl_pct of the computed-PnL branch, by direction
PnlPct(direction, deal_price, entry_price) ==
    IF direction = "LONG"
    THEN Mul(Div(Sub(deal_price, entry_price), entry_price), Q(100))
    ELSE Mul(Div(Sub(entry_price, deal_price), entry_price), Q(100))

\* the id of a position emitted by a closing fill
ClosedPositionId(pos, pair, direction, time, quantity, deal_price) ==
    ClosedId(pair, direction, pos.entry_time, time, quantity, deal_price)

\* the lot's whole entry fee charged to every close, whatever its share
ClosedFees_whole(entry_fee, close_ratio, fee) == Add(entry_fee, fee)

\* 'fees' of a position emitted by a closing fill
ClosedFees(entry_fee, close_ratio, fee) == Add(Mul(entry_fee, close_ratio), fee)

\* the lot removed only by a fill larger than the lot
AfterClose_strict(op, key, pos, close_ratio, quantity) ==
    IF Gt(close_ratio, Q(1))
    THEN Delete(op, key)
    ELSE Store(op, key,
             [pos EXCEPT !.total_quantity = Sub(pos.total_quantity, quantity),
                         !.entry_fee      = Mul(pos.entry_fee, Sub(Q(1), close_ratio))])

\* "Update or remove position"
AfterClose(op, key, pos, close_ratio, quantity) ==
    IF Ge(close_ratio, FullCloseThreshold)
    THEN Delete(op, key)
    ELSE Store(op, key,
             [pos EXCEPT !.total_quantity = Sub(pos.total_quantity, quantity),
                         !.entry_fee      = Mul(pos.entry_fee, Sub(Q(1), close_ratio))])

\* the table indexed without the membership test
OrphanClose_raises(op, ps) == Outcome(op, ps, "KeyError")

\* a closing fill whose key is not in the table: "if key in open_positions"
\* has no else branch
OrphanClose(op, ps) == Outcome(op, ps, "none")

\* the branches 'Close Long' and 'Close Short'
CloseFill(op, ps, pair, direction, time, deal_price, quantity, fee, leverage, realized_pnl) ==
    LET key == <<pair, direction>>
    IN  IF key \notin Keys(op)
        THEN OrphanClose(op, ps)
        ELSE
        LET pos == Lookup(op, key)
        IN  IF IsZero(pos.total_quantity)
            THEN Outcome(op, ps, "ZeroDivisionError")
            ELSE
            LET close_ratio    == Div(quantity, pos.total_quantity)
                duration       == time - to_datetime_iso(pos.entry_time)
                position_value == Mul(Mul(pos.entry_price, quantity), leverage)
                venue          == Ne(realized_pnl, Q(0))
            IN  IF ~venue /\ IsZero(pos.entry_price)
                THEN Outcome(op, ps, "ZeroDivisionError")
                ELSE
                LET pnl_pct     == PnlPct(direction, deal_price, pos.entry_price)
                    net_pnl     == IF venue THEN realized_pnl
                                   ELSE Sub(Mul(position_value, Div(pnl_pct, Q(100))), fee)
                    roi_percent == IF venue
                                   THEN IF Gt(position_value, Q(0))
                                        THEN Mul(Div(net_pnl, position_value), Q(100))
                                        ELSE Q(0)
                                   ELSE pnl_pct
                    position    == Merge(pos,
                        [id               |-> ClosedPositionId(pos, pair, direction, time,
                                                               quantity, deal_price),
                         exit_time        |-> isoformat(time),
                         exit_price       |-> deal_price,
                         closed_at        |-> isoformat(time),
                         quantity         |-> quantity,
                         exit_fee         |-> fee,
                         fees             |-> ClosedFees(pos.entry_fee, close_ratio, fee),
                         duration_seconds |-> duration,
                         net_pnl          |-> Round2(net_pnl),
                         roi_percent      |-> Round2(roi_percent),
                         status           |-> "CLOSED"])
                IN  Outcome(AfterClose(op, key, pos, close_ratio, quantity),
                            Append(ps, position), "none")

\* a row with a NaT time is skipped before any of its cells is read
FuturesSkipsTime(row) == row.Time = NaT

\* "if quantity == 0: continue"
FuturesSkipsQuantity(quantity) == IsZero(quantity)

\* one iteration of "for _, row in df.iterrows()"
FuturesRow(op, ps, row) ==
    IF FuturesSkipsTime(row) THEN Outcome(op, ps, "none")
    ELSE IF FloatRaises(row.Quantity) THEN Outcome(op, ps, "ValueError")
    ELSE
    LET pair         == StripDash(row.Pair)
        trade_type   == row.Type
        leverage     == ParseLeverage(row.Leverage)
        deal_price   == Float(row.DealPrice)
        quantity     == Float(row.Quantity)
        fee          == AbsQ(Float(row.Fee))
        realized_pnl == ParseRealizedPnl(row.RealizedPNL)
        time         == row.Time
    IN  IF FuturesSkipsQuantity(quantity) THEN Outcome(op, ps, "none")
        ELSE CASE trade_type = "Open Long" ->
                    OpenFill(op, ps, pair, "LONG", time, deal_price, quantity, fee, leverage)
               [] trade_type = "Open Short" ->
                    OpenFill(op, ps, pair, "SHORT", time, deal_price, quantity, fee, leverage)
               [] trade_type = "Close Long" ->
                    CloseFill(op, ps, pair, "LONG", time, deal_price, quantity, fee,
                              leverage, realized_pnl)
               [] trade_type = "Close Short" ->
                    CloseFill(op, ps, pair, "SHORT", time, deal_price, quantity, fee,
                              leverage, realized_pnl)
               [] OTHER -> Outcome(op, ps, "none")

\* the flush without the two mirrored exit fields
FlushedPosition_noMirror(pos) ==
    Merge(pos,
        [fees             |-> Get(pos, "entry_fee", Q(0)),
         net_pnl          |-> Q(0),
         roi_percent      |-> Q(0),
         duration_seconds |-> 0,
         exit_price       |-> Q(0),
         closed_at        |-> <<"NaT", 0>>,
         status           |-> "OPEN"])

\* "Add any remaining open positions", one lot
FlushedPosition(pos) ==
    Merge(pos,
        [fees             |-> Get(pos, "entry_fee", Q(0)),
         net_pnl          |-> Q(0),
         roi_percent      |-> Q(0),
         duration_seconds |-> 0,
         exit_price       |-> pos.entry_price,
         closed_at        |-> pos.entry_time,
         status           |-> "OPEN"])

\* a flush that stops after the first lot of the table
Flush_firstOnly(op, ps) ==
    IF op = <<>> THEN ps ELSE Append(ps, FlushedPosition(op[1].pos))

\* a flush that puts the open lots in front of the list
Flush_inFront(op, ps) == [i \in DOMAIN op |-> FlushedPosition(op[i].pos)] \o ps

\* the flush loop: the lots in the table's order, after the closed positions
Flush(op, ps) == ps \o [i \in DOMAIN op |-> FlushedPosition(op[i].pos)]

---------------------------------------------------------------------------
(* parse_simple_csv: the body of the row loop *)

\* row.get('Side', '').upper()
Upper(side) ==
    CASE side = "buy"  -> "BUY"
      [] side = "sell" -> "SELL"
      [] OTHER -> side

\* "Assume $10,000 position size"
position_value == 10000

\* pd.to_datetime(df['Time']), one cell: an empty cell is NaT, text that is
\* no timestamp makes the call raise
to_datetime_raises(cell) == cell[1] = "bad"

\* "if pd.isna(qty) or qty == 0: continue"
SimpleSkipsQuantity(qty) == IsNaN(qty) \/ IsZero(qty)

\* a BUY that adds its quantity and fee to a lot already in the table
SimpleBuy_accumulates(op, ps, symbol, time, price, qty, fee) ==
    LET key == <<symbol>>
    IN  IF key \notin Keys(op)
        THEN Outcome(Store(op, key,
                 [id          |-> LotId(symbol, "LONG", time, price, qty),
                  symbol      |-> symbol,
                  pair        |-> symbol,
                  direction   |-> "LONG",
                  entry_time  |-> isoformat(time),
                  entry_price |-> price,
                  quantity    |-> qty,
                  entry_fee   |-> fee,
                  leverage    |-> 1]), ps, "none")
        ELSE Outcome(Store(op, key,
                 [Lookup(op, key) EXCEPT !.quantity  = Add(@, qty),
                                         !.entry_fee = Add(@, fee)]), ps, "none")

\* the branch side in ['BUY', 'LONG']
SimpleBuy(op, ps, symbol, time, price, qty, fee) ==
    LET key == <<symbol>>
    IN  IF key \notin Keys(op)
        THEN Outcome(Store(op, key,
                 [id          |-> LotId(symbol, "LONG", time, price, qty),
                  symbol      |-> symbol,
                  pair        |-> symbol,
                  direction   |-> "LONG",
                  entry_time  |-> isoformat(time),
                  entry_price |-> price,
                  quantity    |-> qty,
                  entry_fee   |-> fee,
                  leverage    |-> 1]), ps, "none")
        ELSE Outcome(op, ps, "none")

\* net_pnl of a Simple close
SimpleNetPnl(pnl_pct, entry_fee, fee) ==
    Sub(Sub(Mul(Q(position_value), Div(pnl_pct, Q(100))), entry_fee), fee)

\* the branch side in ['SELL', 'SHORT']
SimpleSell(op, ps, symbol, time, price, qty, fee) ==
    LET key == <<symbol>>
    IN  IF key \notin Keys(op)
        THEN Outcome(op, ps, "none")
        ELSE
        LET pos   == Lookup(op, key)
            entry == to_datetime_iso(pos.entry_time)
        IN  IF IsZero(pos.entry_price)
            THEN Outcome(op, ps, "ZeroDivisionError")
            \* int(duration) of the NaN that NaT arithmetic gives
            ELSE IF time = NaT \/ entry = NaT
            THEN Outcome(op, ps, "ValueError")
            ELSE
            LET pnl_pct  == PnlPct(pos.direction, price, pos.entry_price)
                net_pnl  == SimpleNetPnl(pnl_pct, pos.entry_fee, fee)
                position == Merge(pos,
                    [exit_time        |-> isoformat(time),
                     exit_price       |-> price,
                     closed_at        |-> isoformat(time),
                     exit_fee         |-> fee,
                     fees             |-> Add(pos.entry_fee, fee),
                     duration_seconds |-> time - entry,
                     net_pnl          |-> Round2(net_pnl),
                     roi_percent      |-> Round2(pnl_pct),
                     status           |-> "CLOSED"])
            IN  Outcome(Delete(op, key), Append(ps, position), "none")

\* one iteration of "for _, row in df.iterrows()"
SimpleRow(op, ps, row) ==
    IF FloatRaises(row.Qty) THEN Outcome(op, ps, "ValueError")
    ELSE
    LET symbol == row.Symbol
        side   == Upper(row.Side)
        qty    == Float(row.Qty)
        price  == Float(row.Price)
        fee    == Float(row.Fee)
        time   == row.Time
    IN  IF SimpleSkipsQuantity(qty) THEN Outcome(op, ps, "none")
        ELSE IF side \in {"BUY", "LONG"}
             THEN SimpleBuy(op, ps, symbol, time, price, qty, fee)
        ELSE IF side \in {"SELL", "SHORT"}
             THEN SimpleSell(op, ps, symbol, time, price, qty, fee)
        ELSE Outcome(op, ps, "none")

---------------------------------------------------------------------------
(* The parsers as functions of a data frame *)

\* df[time_col] = pd.to_datetime(df[time_col], errors='coerce')
CoerceTimes(frame) ==
    [i \in DOMAIN frame |-> [frame[i] EXCEPT !.Time = to_datetime_coerce(@)]]

\* parse_binance_csv: the Futures parser iff the frame has the columns
\* Type and Pair
Dialect(cols) == IF {"Type", "Pair"} \subseteq cols THEN "FUTURES" ELSE "SIMPLE"

RowStep(d, op, ps, row) ==
    IF d = "FUTURES" THEN FuturesRow(op, ps, row) ELSE SimpleRow(op, ps, row)

RECURSIVE RowLoop(_, _, _, _, _)
RowLoop(d, frame, i, op, ps) ==
    IF i > Len(frame) THEN Outcome(op, ps, "none")
    ELSE Only({IF o.err # "none" THEN o
               ELSE RowLoop(d, frame, i + 1, o.open_positions, o.positions) :
               o \in {RowStep(d, op, ps, frame[i])}})

\* parse_binance_csv(df): [positions, err]
parse_binance_csv(cols, frame) ==
    IF Dialect(cols) = "SIMPLE" /\ \E i \in DOMAIN frame : to_datetime_raises(frame[i].Time)
    THEN [positions |-> <<>>, err |-> "ValueError"]
    ELSE Only({IF o.err # "none"
               THEN [positions |-> <<>>, err |-> o.err]
               ELSE [positions |-> Flush(o.open_positions, o.positions), err |-> "none"] :
               o \in {Only({RowLoop(Dialect(cols), sorted, 1, <<>>, <<>>) :
                             sorted \in {sort_values(CoerceTimes(frame))}})}})

---------------------------------------------------------------------------
(* The data frames explored *)

FuturesColumns ==
    {"Time", "Pair", "Type", "Leverage", "DealPrice", "Quantity", "Fee", "RealizedPNL"}

SimpleColumns == {"Time", "Symbol", "Side", "Price", "Qty", "Fee"}

Num(n) == <<"num", Q(n)>>

FuturesFill(type, t, price, qty) ==
    [Time |-> <<"ts", t>>, Pair |-> "BTC-USDT", Type |-> type, Leverage |-> <<1, "X">>,
     DealPrice |-> Num(price), Quantity |-> Num(qty), Fee |-> Num(-1),
     RealizedPNL |-> <<"nan", NaN>>]

\* well-formed fills: both verbs and both directions, two times, two
\* opening prices and two quantities
FuturesFills ==
    {FuturesFill("Open Long", t, price, qty) : t \in {1, 2}, price \in {100, 110}, qty \in {1, 2}}
    \cup {FuturesFill("Close Long", t, 110, qty) : t \in {1, 2}, qty \in {1, 2}}
    \cup {FuturesFill(type, t, 100, 1) : type \in {"Open Short", "Close Short"}, t \in {1, 2}}

\* rows with an empty or unreadable cell, a zero, a venue PnL or a leverage
FuturesOddRows ==
    {[FuturesFill("Open Long", 1, 100, 1) EXCEPT !.Time = <<"nan", 0>>],
     [FuturesFill("Open Long", 1, 100, 1) EXCEPT !.Time = <<"bad", 0>>],
     FuturesFill("Open Long", 1, 100, 0),
     [FuturesFill("Open Long", 1, 100, 1) EXCEPT !.Quantity = <<"nan", NaN>>],
     [FuturesFill("Close Long", 2, 100, 1) EXCEPT !.Quantity = <<"bad", NaN>>],
     FuturesFill("Open Long", 1, 0, 1),
     [FuturesFill("Close Long", 2, 110, 1) EXCEPT !.Quantity = <<"num", <<99, 100>>>>],
     [FuturesFill("Close Long", 2, 110, 1) EXCEPT !.RealizedPNL = <<"str", Q(5)>>],
     [FuturesFill("Close Long", 2, 110, 1) EXCEPT !.RealizedPNL = <<"float", Q(-3)>>,
                                                  !.Leverage = <<2, "X">>]}

FuturesRows == FuturesFills \cup FuturesOddRows

SimpleFill(side, t, price, qty, fee) ==
    [Time |-> <<"ts", t>>, Symbol |-> "BTCUSDT", Side |-> side,
     Price |-> Num(price), Qty |-> Num(qty), Fee |-> Num(fee)]

SimpleFills ==
    {SimpleFill("BUY", t, 100, 1, 0) : t \in {1, 2}}
    \cup {SimpleFill("SELL", t, price, 1, 0) : t \in {1, 2}, price \in {100, 105}}
    \cup {SimpleFill("buy", 1, 100, 2, 1), SimpleFill("LONG", 1, 105, 2, 0),
          SimpleFill("SHORT", 2, 100, 2, 1), SimpleFill("sell", 2, 105, 1, 1)}

SimpleOddRows ==
    {[SimpleFill("BUY", 1, 100, 1, 0) EXCEPT !.Time = <<"nan", 0>>],
     [SimpleFill("SELL", 1, 100, 1, 0) EXCEPT !.Time = <<"bad", 0>>],
     SimpleFill("BUY", 1, 100, 0, 0),
     [SimpleFill("BUY", 1, 100, 1, 0) EXCEPT !.Qty = <<"nan", NaN>>],
     [SimpleFill("SELL", 2, 100, 1, 0) EXCEPT !.Qty = <<"bad", NaN>>],
     SimpleFill("BUY", 1, 0, 1, 0)}

SimpleRows == SimpleFills \cup SimpleOddRows

\* the frames of at most n rows drawn from rows
Frames(rows, n) == UNION {[1..k -> rows] : k \in 0..n}

---------------------------------------------------------------------------
(* History of the lots, kept beside the parser's state: for each key, what  *)
(* the opening fills of its current (or last) lot brought in and what its   *)
(* closing fills were allocated.                                            *)

\* the key a Futures row addresses
RowKey(row) ==
    <<StripDash(row.Pair), IF row.Type \in {"Open Long", "Close Long"} THEN "LONG" ELSE "SHORT">>

RowOpens(row) == row.Type \in {"Open Long", "Open Short"}

RowCloses(row) == row.Type \in {"Close Long", "Close Short"}

\* the row is read by the loop: it has a time and a quantity other than 0
RowCounts(row) == row.Time # NaT /\ ~FloatRaises(row.Quantity) /\ ~IsZero(Float(row.Quantity))

LedgerAfter(led, op, o, row) ==
    IF o.err # "none" \/ ~RowCounts(row) THEN led
    ELSE
    LET k   == RowKey(row)
        q   == Float(row.Quantity)
        p   == Float(row.DealPrice)
        fee == AbsQ(Float(row.Fee))
    IN  IF RowOpens(row) /\ k \notin Keys(op)
        THEN Merge(led, [x \in {k} |->
                 [paid |-> fee, allocated |-> Q(0), cost |-> Mul(p, q), qty |-> q,
                  closes |-> 0, closed |-> Q(0), first |-> [time |-> row.Time, price |-> p, quantity |-> q]]])
        ELSE IF RowOpens(row)
        THEN [led EXCEPT ![k].paid = Add(@, fee),
                         ![k].cost = Add(@, Mul(p, q)),
                         ![k].qty  = Add(@, q)]
        ELSE IF RowCloses(row) /\ k \in Keys(op)
        THEN LET emitted == o.positions[Len(o.positions)]
             IN  [led EXCEPT ![k].allocated = Add(@, Sub(emitted.fees, emitted.exit_fee)),
                             ![k].closes    = @ + 1,
                             ![k].closed    = Add(@, q)]
        ELSE led

---------------------------------------------------------------------------
(* The reconstructor, row by row *)

\* no folder has been listed, no file recorded and no scan run
ScanIdle ==
    /\ all_files = <<>>
    /\ processed_files = <<>>
    /\ scan = <<>>

StoreIdle ==
    /\ db = <<>>
    /\ new_positions = 0
    /\ ins = 0
    /\ uploads = 0
    /\ prev_positions = <<>>
    /\ db_before = <<>>
    /\ response = <<>>
    /\ ScanIdle

Init ==
    /\ columns \in {FuturesColumns, SimpleColumns}
    /\ df \in Frames(IF Dialect(columns) = "FUTURES" THEN FuturesRows ELSE SimpleRows, MaxRows)
    /\ pc = "start"
    /\ idx = 0
    /\ open_positions = <<>>
    /\ positions = <<>>
    /\ err = "none"
    /\ ledger = <<>>
    /\ StoreIdle

\* parse_bingx_futures up to the row loop: the time column is converted
\* and the frame sorted
FuturesPrepare ==
    /\ pc = "start"
    /\ Dialect(columns) = "FUTURES"
    /\ df' = sort_values(CoerceTimes(df))
    /\ pc' = "loop"
    /\ idx' = 1
    /\ UNCHANGED <<columns, open_positions, positions, err, ledger>>
    /\ UNCHANGED storeVars

\* parse_simple_csv up to the row loop: pd.to_datetime raises on text that
\* is no timestamp
SimplePrepare ==
    /\ pc = "start"
    /\ Dialect(columns) = "SIMPLE"
    /\ \A i \in DOMAIN df : ~to_datetime_raises(df[i].Time)
    /\ df' = sort_values(CoerceTimes(df))
    /\ pc' = "loop"
    /\ idx' = 1
    /\ UNCHANGED <<columns, open_positions, positions, err, ledger>>
    /\ UNCHANGED storeVars

SimplePrepareRaises ==
    /\ pc = "start"
    /\ Dialect(columns) = "SIMPLE"
    /\ \E i \in DOMAIN df : to_datetime_raises(df[i].Time)
    /\ pc' = "raised"
    /\ err' = "ValueError"
    /\ UNCHANGED <<columns, df, idx, open_positions, positions, ledger>>
    /\ UNCHANGED storeVars

\* one iteration of the row loop of parse_bingx_futures
FuturesStep ==
    /\ pc = "loop"
    /\ Dialect(columns) = "FUTURES"
    /\ idx <= Len(df)
    /\ \E o \in {FuturesRow(open_positions, positions, df[idx])} :
           /\ open_positions' = o.open_positions
           /\ positions' = o.positions
           /\ err' = o.err
           /\ pc' = IF o.err = "none" THEN "loop" ELSE "raised"
           /\ ledger' = LedgerAfter(ledger, open_positions, o, df[idx])
    /\ idx' = idx + 1
    /\ UNCHANGED <<columns, df>>
    /\ UNCHANGED storeVars

\* one iteration of the row loop of parse_simple_csv
SimpleStep ==
    /\ pc = "loop"
    /\ Dialect(columns) = "SIMPLE"
    /\ idx <= Len(df)
    /\ \E o \in {SimpleRow(open_positions, positions, df[idx])} :
           /\ open_positions' = o.open_positions
           /\ positions' = o.positions
           /\ err' = o.err
           /\ pc' = IF o.err = "none" THEN "loop" ELSE "raised"
    /\ idx' = idx + 1
    /\ UNCHANGED <<columns, df, ledger>>
    /\ UNCHANGED storeVars

\* the flush loop and the return of either parser
FlushAndReturn ==
    /\ pc = "loop"
    /\ idx > Len(df)
    /\ positions' = Flush(open_positions, positions)
    /\ pc' = "returned"
    /\ UNCHANGED <<columns, df, idx, open_positions, err, ledger>>
    /\ UNCHANGED storeVars

Next ==
    \/ FuturesPrepare
    \/ SimplePrepare
    \/ SimplePrepareRaises
    \/ FuturesStep
    \/ SimpleStep
    \/ FlushAndReturn

Spec == Init /\ [][Next]_vars

---------------------------------------------------------------------------
(* database.py: the table positions *)

\* SQL NULL, and Python None bound as a parameter
None == <<>>

\* a float bound as a parameter: sqlite3 binds the float NaN as NULL
SqlFloat(v) == IF v = None THEN None ELSE IF IsNaN(v) THEN None ELSE v

\* the values insert_position binds to the INSERT, by column
BoundRow(position) ==
    [id               |-> Get(position, "id", None),
     symbol           |-> Get(position, "symbol", None),
     pair             |-> Get(position, "pair", None),
     direction        |-> Get(position, "direction", None),
     entry_time       |-> Get(position, "entry_time", None),
     exit_time        |-> Get(position, "exit_time", None),
     closed_at        |-> Get(position, "closed_at", None),
     entry_price      |-> SqlFloat(Get(position, "entry_price", None)),
     exit_price       |-> SqlFloat(Get(position, "exit_price", None)),
     quantity         |-> SqlFloat(Get(position, "quantity", None)),
     leverage         |-> Get(position, "leverage", 1),
     entry_fee        |-> SqlFloat(Get(position, "entry_fee", Q(0))),
     exit_fee         |-> SqlFloat(Get(position, "exit_fee", Q(0))),
     fees             |-> SqlFloat(Get(position, "fees", Q(0))),
     net_pnl          |-> SqlFloat(Get(position, "net_pnl", Q(0))),
     roi_percent      |-> SqlFloat(Get(position, "roi_percent", Q(0))),
     duration_seconds |-> Get(position, "duration_seconds", 0),
     status           |-> Get(position, "status", "OPEN")]

\* SELECT id FROM positions WHERE symbol = ? AND entry_time = ? AND
\* entry_price = ? AND quantity = ?   (a comparison with NULL selects nothing)
DuplicateNaturalKey(table, position) ==
    LET b == BoundRow(position)
    IN  /\ b.entry_price # None
        /\ b.quantity # None
        /\ \E i \in DOMAIN table :
              /\ table[i].symbol = b.symbol
              /\ table[i].entry_time = b.entry_time
              /\ table[i].entry_price = b.entry_price
              /\ table[i].quantity = b.quantity

\* the INSERT raises sqlite3.IntegrityError: id is the PRIMARY KEY, and
\* entry_price and quantity (REAL) are NOT NULL
IntegrityError(table, position) ==
    LET b == BoundRow(position)
    IN  \/ \E i \in DOMAIN table : table[i].id = b.id
        \/ b.entry_price = None
        \/ b.quantity = None

\* an insert that overwrites the stored rows of the same natural key
insert_position_replaces(table, position) ==
    IF DuplicateNaturalKey(table, position)
    THEN [db |-> [i \in DOMAIN table |->
                     IF /\ table[i].symbol = BoundRow(position).symbol
                        /\ table[i].entry_time = BoundRow(position).entry_time
                        /\ table[i].entry_price = BoundRow(position).entry_price
                        /\ table[i].quantity = BoundRow(position).quantity
                     THEN BoundRow(position) ELSE table[i]],
          accepted |-> FALSE]
    ELSE IF IntegrityError(table, position)
    THEN [db |-> table, accepted |-> FALSE]
    ELSE [db |-> Append(table, BoundRow(position)), accepted |-> TRUE]

\* an insert with neither the duplicate check nor the primary key
insert_position_blind(table, position) ==
    [db |-> Append(table, BoundRow(position)), accepted |-> TRUE]

\* insert_position: the table afterwards and the value returned
insert_position(table, position) ==
    IF DuplicateNaturalKey(table, position)
    THEN [db |-> table, accepted |-> FALSE]
    ELSE IF IntegrityError(table, position)
    THEN [db |-> table, accepted |-> FALSE]
    ELSE [db |-> Append(table, BoundRow(position)), accepted |-> TRUE]

---------------------------------------------------------------------------
(* upload_file, the same file uploaded again and again *)

UploadFuturesRows ==
    {FuturesFill("Open Long", 1, 100, 2),
     FuturesFill("Open Long", 1, 110, 2),
     FuturesFill("Close Long", 2, 110, 1),
     FuturesFill("Close Long", 2, 110, 2),
     FuturesFill("Close Long", 3, 110, 1),
     FuturesFill("Open Short", 1, 100, 1),
     FuturesFill("Open Long", 1, 0, 1),
     [FuturesFill("Open Long", 1, 100, 1) EXCEPT !.Quantity = <<"nan", NaN>>]}

UploadSimpleRows ==
    {SimpleFill("BUY", 1, 100, 1, 0),
     SimpleFill("SELL", 2, 105, 1, 0),
     SimpleFill("BUY", 2, 100, 1, 0),
     [SimpleFill("SELL", 1, 100, 1, 0) EXCEPT !.Time = <<"bad", 0>>]}

InitUpload ==
    /\ columns \in {FuturesColumns, SimpleColumns}
    /\ df \in Frames(IF Dialect(columns) = "FUTURES" THEN UploadFuturesRows
                     ELSE UploadSimpleRows, MaxUploadRows)
    /\ pc = "idle"
    /\ idx = 0
    /\ open_positions = <<>>
    /\ positions = <<>>
    /\ err = "none"
    /\ ledger = <<>>
    /\ StoreIdle

\* a request arrives; the file is read and parse_binance_csv returns
UploadParse ==
    /\ pc \in {"idle", "responded", "http500"}
    /\ uploads < MaxUploads
    /\ \E r \in {parse_binance_csv(columns, df)} :
           /\ r.err = "none"
           /\ positions' = r.positions
    /\ uploads' = uploads + 1
    /\ prev_positions' = positions
    /\ db_before' = db
    /\ new_positions' = 0
    /\ ins' = 1
    /\ err' = "none"
    /\ pc' = "insert"
    /\ UNCHANGED <<columns, df, idx, open_positions, db, ledger, response>>
    /\ UNCHANGED scanVars

\* a request arrives and parse_binance_csv raises: the handler answers 500
UploadParseRaises ==
    /\ pc \in {"idle", "responded", "http500"}
    /\ uploads < MaxUploads
    /\ \E r \in {parse_binance_csv(columns, df)} :
           /\ r.err # "none"
           /\ err' = r.err
    /\ uploads' = uploads + 1
    /\ prev_positions' = positions
    /\ db_before' = db
    /\ positions' = <<>>
    /\ pc' = "http500"
    /\ UNCHANGED <<columns, df, idx, open_positions, db, new_positions, ins, ledger,
                   response>>
    /\ UNCHANGED scanVars

\* one iteration of "for position in positions"
UploadInsert ==
    /\ pc = "insert"
    /\ ins <= Len(positions)
    /\ \E r \in {insert_position(db, positions[ins])} :
           /\ db' = r.db
           /\ new_positions' = IF r.accepted THEN new_positions + 1 ELSE new_positions
    /\ ins' = ins + 1
    /\ UNCHANGED <<columns, df, pc, idx, open_positions, positions, err,
                   uploads, prev_positions, db_before, ledger, response>>
    /\ UNCHANGED scanVars

\* the response: trades_processed, new_positions, duplicates_skipped
UploadRespond ==
    /\ pc = "insert"
    /\ ins > Len(positions)
    /\ pc' = "responded"
    /\ UNCHANGED <<columns, df, idx, open_positions, positions, err, db,
                   new_positions, ins, uploads, prev_positions, db_before, ledger,
                   response>>
    /\ UNCHANGED scanVars

duplicates_skipped == Len(positions) - new_positions

NextUpload ==
    \/ UploadParse
    \/ UploadParseRaises
    \/ UploadInsert
    \/ UploadRespond

SpecUpload == InitUpload /\ [][NextUpload]_vars

---------------------------------------------------------------------------
(* parse_binance_csv on the same rows supplied in another order *)

\* fills at three times, of both verbs and directions
OrderFuturesRows ==
    {FuturesFill("Open Long", t, 100, qty) : t \in {1, 2, 3}, qty \in {1, 2}}
    \cup {FuturesFill(type, t, 110, 1) :
             type \in {"Close Long", "Open Short", "Close Short"}, t \in {1, 2, 3}}
    \cup {[FuturesFill("Open Long", 1, 100, 1) EXCEPT !.Time = <<"nan", 0>>]}

OrderSimpleRows ==
    {SimpleFill("BUY", t, price, 1, 0) : t \in {1, 2, 3}, price \in {100, 105}}
    \cup {SimpleFill("SELL", t, 105, 1, 1) : t \in {1, 2, 3}}
    \cup {[SimpleFill("BUY", 1, 100, 1, 0) EXCEPT !.Time = <<"nan", 0>>]}

\* no two rows of the frame have the same time cell
DistinctTimes(frame) ==
    \A i, j \in DOMAIN frame : i # j => frame[i].Time # frame[j].Time

InitOrder ==
    /\ columns \in {FuturesColumns, SimpleColumns}
    /\ df \in {f \in Frames(IF Dialect(columns) = "FUTURES" THEN OrderFuturesRows
                            ELSE OrderSimpleRows, MaxOrderRows) : DistinctTimes(f)}
    /\ pc = "supplied"
    /\ idx = 0
    /\ open_positions = <<>>
    /\ positions = <<>>
    /\ err = "none"
    /\ ledger = <<>>
    /\ StoreIdle

\* parse_binance_csv(df) on the frame as supplied
ParseSupplied ==
    /\ pc = "supplied"
    /\ \E r \in {parse_binance_csv(columns, df)} :
           /\ positions' = r.positions
           /\ err' = r.err
    /\ pc' = "parsed"
    /\ UNCHANGED <<columns, df, idx, open_positions, ledger>>
    /\ UNCHANGED storeVars

\* parse_binance_csv(df) on a frame of the same rows in another order
ParseReordered ==
    /\ pc = "parsed"
    /\ \E p \in Permutations(DOMAIN df) :
           /\ df' = [i \in DOMAIN df |-> df[p[i]]]
           /\ \E r \in {parse_binance_csv(columns, [i \in DOMAIN df |-> df[p[i]]])} :
                  /\ positions' = r.positions
                  /\ err' = r.err
    /\ pc' = "reparsed"
    /\ UNCHANGED <<columns, idx, open_positions, ledger>>
    /\ UNCHANGED storeVars

NextOrder ==
    \/ ParseSupplied
    \/ ParseReordered

SpecOrder == InitOrder /\ [][NextOrder]_vars

---------------------------------------------------------------------------
(* insert_position called by several requests at once.  Every call opens    *)
(* its own connection; the SELECT runs outside any transaction and the      *)
(* INSERT is committed on its own, so another call's INSERT can be          *)
(* committed between the two.  Here positions[c] is the position call c     *)
(* inserts and pc[c] is where call c stands.                                *)

\* positions reconstructed from one-file uploads: a LONG and a SHORT lot
\* opened by equal fills, a larger lot, and a lot closed in two halves
ConcurrentPositions ==
    {parse_binance_csv(FuturesColumns, <<FuturesFill("Open Long", 1, 100, 1)>>).positions[1],
     parse_binance_csv(FuturesColumns, <<FuturesFill("Open Short", 1, 100, 1)>>).positions[1],
     parse_binance_csv(FuturesColumns, <<FuturesFill("Open Long", 1, 100, 2)>>).positions[1],
     parse_binance_csv(FuturesColumns, <<FuturesFill("Open Long", 1, 100, 2),
                                         FuturesFill("Close Long", 2, 110, 1)>>).positions[1],
     parse_binance_csv(FuturesColumns, <<FuturesFill("Open Long", 1, 100, 2),
                                         FuturesFill("Close Long", 3, 110, 1)>>).positions[1]}

InitConcurrent ==
    /\ columns = FuturesColumns
    /\ df = <<>>
    /\ positions \in UNION {[1..n -> ConcurrentPositions] : n \in 1..MaxCallers}
    /\ pc = [c \in DOMAIN positions |-> "select"]
    /\ idx = 0
    /\ open_positions = <<>>
    /\ err = "none"
    /\ ledger = <<>>
    /\ StoreIdle

\* "SELECT id FROM positions WHERE ..." and "if cursor.fetchone(): return False"
SelectDuplicate(c) ==
    /\ pc[c] = "select"
    /\ pc' = [pc EXCEPT ![c] = IF DuplicateNaturalKey(db, positions[c])
                               THEN "returned False" ELSE "insert"]
    /\ UNCHANGED <<columns, df, idx, open_positions, positions, err, ledger>>
    /\ UNCHANGED storeVars

\* "INSERT INTO positions ...", conn.commit() and "return True", or the
\* IntegrityError and "return False"
InsertAndCommit(c) ==
    /\ pc[c] = "insert"
    /\ IF IntegrityError(db, positions[c])
       THEN /\ pc' = [pc EXCEPT ![c] = "returned False"]
            /\ UNCHANGED <<db, new_positions>>
       ELSE /\ pc' = [pc EXCEPT ![c] = "returned True"]
            /\ db' = Append(db, BoundRow(positions[c]))
            /\ new_positions' = new_positions + 1
    /\ UNCHANGED <<columns, df, idx, open_positions, positions, err, ledger,
                   ins, uploads, prev_positions, db_before, response>>
    /\ UNCHANGED scanVars

NextConcurrent ==
    \/ \E c \in DOMAIN positions : SelectDuplicate(c)
    \/ \E c \in DOMAIN positions : InsertAndCommit(c)

SpecConcurrent == InitConcurrent /\ [][NextConcurrent]_vars

---------------------------------------------------------------------------
(* GET /api/stats and GET /api/chart-data over a populated store.  Files   *)
(* are uploaded first, the aggregators then read whatever the store holds. *)

\* seconds in a day: closed_at.split('T')[0] is the calendar day of a time
SecondsPerDay == 86400

\* the files uploaded before the requests; each is its reconstructed positions:
\* a winning LONG, a losing LONG closed the next day, a SHORT closed at no
\* gain, a lot left OPEN, a close on a lot opened with an empty Quantity (its
\* fees are NaN, stored as NULL), a winner with cents, and a Simple round trip
StoredFiles ==
    {parse_binance_csv(FuturesColumns, <<FuturesFill("Open Long", 1, 100, 1),
                                         FuturesFill("Close Long", 2, 110, 1)>>).positions,
     parse_binance_csv(FuturesColumns, <<FuturesFill("Open Long", 2, 100, 2),
                                         FuturesFill("Close Long", SecondsPerDay + 1, 100, 2)>>).positions,
     parse_binance_csv(FuturesColumns, <<FuturesFill("Open Short", 3, 100, 1),
                                         FuturesFill("Close Short", SecondsPerDay + 1, 99, 1)>>).positions,
     parse_binance_csv(FuturesColumns, <<FuturesFill("Open Long", 3, 110, 1)>>).positions,
     parse_binance_csv(FuturesColumns,
         <<[FuturesFill("Open Long", 1, 100, 1) EXCEPT !.Quantity = <<"nan", NaN>>],
           FuturesFill("Close Long", 2, 110, 2)>>).positions,
     parse_binance_csv(FuturesColumns,
         <<FuturesFill("Open Long", 2, 100, 1),
           [FuturesFill("Close Long", SecondsPerDay + 2, 110, 1)
               EXCEPT !.Quantity = <<"num", <<99, 100>>>>]>>).positions,
     parse_binance_csv(SimpleColumns, <<SimpleFill("BUY", 2, 100, 1, 1),
                                        SimpleFill("SELL", 3, 105, 1, 1)>>).positions}

\* how many files have been uploaded before the requests
MaxStoredFiles == 3

\* "for position in positions: db.insert_position(position)"
RECURSIVE InsertAll(_, _, _)
InsertAll(table, ps, i) ==
    IF i > Len(ps) THEN table
    ELSE InsertAll(Only({insert_position(table, ps[i]).db}), ps, i + 1)

\* the table after the files of a sequence have been uploaded one by one
RECURSIVE UploadAll(_, _, _)
UploadAll(table, files, i) ==
    IF i > Len(files) THEN table
    ELSE UploadAll(Only({InsertAll(table, files[i], 1)}), files, i + 1)

\* TEXT comparison of two stored times: ISO strings compare as their times,
\* and start with a digit, which is below the "N" of "NaT"
TextLe(a, b) == IF a[1] = b[1] THEN a[2] <= b[2] ELSE a[1] = "iso"

\* get_all_positions with no limit: every row, ORDER BY entry_time DESC.
\* SQL leaves the order of rows with equal entry_time open, so this is the
\* set of lists the query can return.
get_all_positions(table) ==
    {[i \in DOMAIN table |-> table[p[i]]] :
        p \in {q \in Permutations(DOMAIN table) :
                  \A i, j \in DOMAIN table :
                      i < j => TextLe(table[q[j]].entry_time, table[q[i]].entry_time)}}

\* sum(...) of a list of floats
RECURSIVE sum(_)
sum(xs) == IF xs = <<>> THEN Q(0) ELSE Add(xs[1], sum(Tail(xs)))

\* [p[field] for p in ps]
Column(ps, field) == [i \in DOMAIN ps |-> ps[i][field]]

\* closed_positions = [p for p in positions if p['status'] == 'CLOSED']
closed_positions(ps) == SelectSeq(ps, LAMBDA p : p.status = "CLOSED")

\* total_pnl = sum(p['net_pnl'] for p in closed_positions)
total_pnl(ps) == sum(Column(closed_positions(ps), "net_pnl"))

\* fees summed over the closed positions only
total_fees_closedOnly(ps) == sum(Column(closed_positions(ps), "fees"))

\* total_fees = sum(p.get('fees', 0) for p in positions)
total_fees(ps) == sum(Column(ps, "fees"))

\* winners that include the closed positions of no gain
winning_trades_orEven(ps) == SelectSeq(closed_positions(ps), LAMBDA p : Ge(p.net_pnl, Q(0)))

\* winning_trades = [p for p in closed_positions if p['net_pnl'] > 0]
winning_trades(ps) == SelectSeq(closed_positions(ps), LAMBDA p : Gt(p.net_pnl, Q(0)))

\* losing_trades = [p for p in closed_positions if p['net_pnl'] < 0]
losing_trades(ps) == SelectSeq(closed_positions(ps), LAMBDA p : Lt(p.net_pnl, Q(0)))

\* sum(p['net_pnl'] for p in trades) / len(trades) if trades else 0
Average(trades) ==
    IF trades = <<>> THEN Q(0)
    ELSE Div(sum(Column(trades, "net_pnl")), Q(Len(trades)))

\* (len(winners) / len(trades) * 100) if trades else 0
WinRate(winners, trades) ==
    IF trades = <<>> THEN Q(0)
    ELSE Mul(Div(Q(Len(winners)), Q(Len(trades))), Q(100))

\* sum() adds None to a number: a NULL fees or net_pnl raises TypeError
StatsRaises(ps) ==
    \/ \E i \in DOMAIN ps : ps[i].fees = None
    \/ \E i \in DOMAIN ps : ps[i].status = "CLOSED" /\ ps[i].net_pnl = None

\* a summary that reports a full win rate over nothing
EmptySummary_allWon ==
    [total_positions |-> 0, total_trades |-> 0, net_pnl |-> Q(0),
     total_pnl |-> Q(0), total_fees |-> Q(0), total_volume |-> 0,
     win_rate |-> Q(100), winning_trades |-> 0, losing_trades |-> 0,
     avg_win |-> Q(0), avg_loss |-> Q(0)]

\* the summary returned under "if not positions"
EmptySummary ==
    [total_positions |-> 0, total_trades |-> 0, net_pnl |-> Q(0),
     total_pnl |-> Q(0), total_fees |-> Q(0), total_volume |-> 0,
     win_rate |-> Q(0), winning_trades |-> 0, losing_trades |-> 0,
     avg_win |-> Q(0), avg_loss |-> Q(0)]

\* calculate_stats: the summary it returns, or the error it raises
calculate_stats(ps) ==
    IF ps = <<>>
    THEN [err |-> "none", body |-> EmptySummary]
    ELSE IF StatsRaises(ps)
    THEN [err |-> "TypeError", body |-> None]
    ELSE [err |-> "none",
          body |-> [total_positions |-> Len(ps),
                    total_trades    |-> Len(closed_positions(ps)),
                    net_pnl         |-> Round2(total_pnl(ps)),
                    total_pnl       |-> Round2(Add(total_pnl(ps), total_fees(ps))),
                    total_fees      |-> Round2(total_fees(ps)),
                    total_volume    |-> Len(closed_positions(ps)) * 10000,
                    win_rate        |-> Round2(WinRate(winning_trades(ps), closed_positions(ps))),
                    winning_trades  |-> Len(winning_trades(ps)),
                    losing_trades   |-> Len(losing_trades(ps)),
                    avg_win         |-> Round2(Average(winning_trades(ps))),
                    avg_loss        |-> Round2(Average(losing_trades(ps)))]]

\* pos['closed_at'].split('T')[0]
DateOf(closed_at) == <<"date", closed_at[2] \div SecondsPerDay>>

\* sorted(..., key=closed_at) puts r behind every element not after it
InsertByClosedAt(s, r) ==
    LET n == Cardinality({i \in DOMAIN s : TextLe(s[i].closed_at, r.closed_at)})
    IN  SubSeq(s, 1, n) \o <<r>> \o SubSeq(s, n + 1, Len(s))

\* the closed positions left in the order the store returned them
sorted_positions_asFetched(closed) == closed

\* sorted_positions = sorted(closed_positions, key=lambda x: x['closed_at'])
RECURSIVE sorted_positions(_)
sorted_positions(closed) ==
    IF closed = <<>> THEN <<>>
    ELSE InsertByClosedAt(Only({sorted_positions(SubSeq(closed, 1, Len(closed) - 1))}),
                          closed[Len(closed)])

\* equity = 10000  # Starting equity
starting_equity == 10000

\* the equity curve: one point per closed position, equity accumulated
equity_curve(sorted) ==
    [k \in DOMAIN sorted |->
        [date   |-> DateOf(sorted[k].closed_at),
         equity |-> Round2(Add(Q(starting_equity),
                               sum(Column(SubSeq(sorted, 1, k), "net_pnl")))),
         pnl    |-> Round2(sorted[k].net_pnl)]]

\* the elements of a set of dates, ascending
RECURSIVE SortedDates(_)
SortedDates(S) ==
    IF S = {} THEN <<>>
    ELSE LET m == CHOOSE d \in S : \A e \in S : d[2] <= e[2]
         IN  <<m>> \o SortedDates(S \ {m})

\* daily_pnl: the net_pnl of each closing day, by day
daily_pnl(sorted) ==
    LET days == SortedDates({DateOf(sorted[i].closed_at) : i \in DOMAIN sorted})
    IN  [k \in DOMAIN days |->
            [date |-> days[k],
             pnl  |-> Round2(sum(Column(SelectSeq(sorted,
                          LAMBDA p : DateOf(p.closed_at) = days[k]), "net_pnl")))]]

\* the pairs of closed positions, each once, in order of first appearance
RECURSIVE PairsSeen(_)
PairsSeen(closed) ==
    IF closed = <<>> THEN <<>>
    ELSE LET before == PairsSeen(SubSeq(closed, 1, Len(closed) - 1))
             pair   == closed[Len(closed)].pair
         IN  IF \E i \in DOMAIN before : before[i] = pair THEN before
             ELSE Append(before, pair)

\* sorted(pair_stats.items(), key=count, reverse=True): a stable sort, so
\* pairs of equal count stay in order of first appearance
RECURSIVE ByCountDescending(_)
ByCountDescending(stats) ==
    IF stats = <<>> THEN <<>>
    ELSE LET rest == ByCountDescending(SubSeq(stats, 1, Len(stats) - 1))
             r    == stats[Len(stats)]
             n    == Cardinality({i \in DOMAIN rest : rest[i].count >= r.count})
         IN  SubSeq(rest, 1, n) \o <<r>> \o SubSeq(rest, n + 1, Len(rest))

\* pair_distribution: count and net_pnl of each pair
pair_distribution(closed) ==
    LET pairs == PairsSeen(closed)
        stats == [k \in DOMAIN pairs |->
                     LET of == SelectSeq(closed, LAMBDA p : p.pair = pairs[k])
                     IN  [pair |-> pairs[k], count |-> Len(of),
                          pnl |-> Round2(sum(Column(of, "net_pnl")))]]
    IN  ByCountDescending(stats)

\* one side of long_vs_short
SideStats(closed, direction) ==
    LET side    == SelectSeq(closed, LAMBDA p : p.direction = direction)
        winning == SelectSeq(side, LAMBDA p : Gt(p.net_pnl, Q(0)))
    IN  [count    |-> Len(side),
         pnl      |-> Round2(sum(Column(side, "net_pnl"))),
         win_rate |-> Round2(WinRate(winning, side))]

\* calculate_chart_data
calculate_chart_data(ps) ==
    IF ps = <<>>
    THEN [equity_curve |-> <<>>, daily_pnl |-> <<>>, pair_distribution |-> <<>>,
          long_vs_short |-> [long  |-> [count |-> 0, pnl |-> Q(0), win_rate |-> Q(0)],
                             short |-> [count |-> 0, pnl |-> Q(0), win_rate |-> Q(0)]]]
    ELSE LET closed == closed_positions(ps)
             sorted == sorted_positions(closed)
         IN  [equity_curve      |-> equity_curve(sorted),
              daily_pnl         |-> daily_pnl(sorted),
              pair_distribution |-> pair_distribution(closed),
              long_vs_short     |-> [long  |-> SideStats(closed, "LONG"),
                                     short |-> SideStats(closed, "SHORT")]]

InitStats ==
    /\ columns = FuturesColumns
    /\ df = <<>>
    /\ db \in {UploadAll(<<>>, files, 1) :
                  files \in UNION {[1..n -> StoredFiles] : n \in 0..MaxStoredFiles}}
    /\ pc = "idle"
    /\ idx = 0
    /\ open_positions = <<>>
    /\ positions = <<>>
    /\ err = "none"
    /\ ledger = <<>>
    /\ new_positions = 0
    /\ ins = 0
    /\ uploads = 0
    /\ prev_positions = <<>>
    /\ db_before = <<>>
    /\ response = <<>>
    /\ ScanIdle

\* GET /api/stats: positions = db.get_all_positions(); calculate_stats(positions)
GetStats ==
    /\ \E ps \in get_all_positions(db) :
           /\ positions' = ps
           /\ \E r \in {calculate_stats(ps)} :
                  /\ err' = r.err
                  /\ response' = r.body
                  /\ pc' = IF r.err = "none" THEN "stats" ELSE "http500"
    /\ UNCHANGED <<columns, df, idx, open_positions, ledger, db, new_positions, ins,
                   uploads, prev_positions, db_before>>
    /\ UNCHANGED scanVars

\* GET /api/chart-data: positions = db.get_all_positions(); calculate_chart_data(positions)
GetChartData ==
    /\ \E ps \in get_all_positions(db) :
           /\ positions' = ps
           /\ response' = Only({calculate_chart_data(ps)})
    /\ err' = "none"
    /\ pc' = "chart"
    /\ UNCHANGED <<columns, df, idx, open_positions, ledger, db, new_positions, ins,
                   uploads, prev_positions, db_before>>
    /\ UNCHANGED scanVars

NextStats ==
    \/ GetStats
    \/ GetChartData

SpecStats == InitStats /\ [][NextStats]_vars

---------------------------------------------------------------------------
(* POST /api/scan-folder over a folder that stays as it is, and DELETE      *)
(* /api/clear between scans.  A file is its name and what reading it gives. *)

\* how many files the folder holds, how many scans and clears are requested
MaxFiles == 2
MaxScans == 3
MaxClears == 1

\* the names the glob lists, in its order: *.csv before *.xlsx
FileNames == <<"a.csv", "b.csv", "c.xlsx">>

\* what a file can hold: a Futures export with a partial close, a Simple
\* round trip, a header with no rows, rows parse_binance_csv raises on, and
\* bytes neither openpyxl nor read_csv can read (df stays None)
FileContents ==
    {[readable |-> TRUE, columns |-> FuturesColumns,
      df |-> <<FuturesFill("Open Long", 1, 100, 2), FuturesFill("Close Long", 2, 110, 1)>>],
     [readable |-> TRUE, columns |-> SimpleColumns,
      df |-> <<SimpleFill("BUY", 1, 100, 1, 0), SimpleFill("SELL", 2, 105, 1, 0)>>],
     [readable |-> TRUE, columns |-> FuturesColumns, df |-> <<>>],
     [readable |-> TRUE, columns |-> SimpleColumns,
      df |-> <<[SimpleFill("SELL", 1, 100, 1, 0) EXCEPT !.Time = <<"bad", 0>>]>>],
     [readable |-> FALSE, columns |-> {}, df |-> <<>>]}

\* the folders: the first n names, each with some content
Folders ==
    UNION {{[i \in 1..n |-> Merge([name |-> FileNames[i]], c[i])] :
               c \in [1..n -> FileContents]} : n \in 0..MaxFiles}

\* "SELECT filename FROM processed_files WHERE filename = ?" found nothing
is_file_processed_never(table, filename) == FALSE

\* is_file_processed
is_file_processed(table, filename) == filename \in DOMAIN table

\* mark_file_processed: INSERT OR REPLACE INTO processed_files
mark_file_processed(table, filename, file_path, positions_count)  ==
    Merge(table, [f \in {filename} |->
                     [file_path |-> file_path, positions_count |-> positions_count]])

\* the file recorded although processing it raised
AfterException_marks(table, filename) ==
    mark_file_processed(table, filename, filename, 0)

\* "except Exception as e: print(...); continue": the table is not touched
AfterException(table, filename) == table

\* reading and parsing a file: "df is None" raises ValueError, and
\* parse_binance_csv returns the positions or raises
ReadAndParse(file) ==
    IF ~file.readable THEN [positions |-> <<>>, err |-> "ValueError"]
    ELSE Only({[positions |-> r.positions, err |-> r.err] :
                  r \in {parse_binance_csv(file.columns, file.df)}})

InitScan ==
    /\ columns = FuturesColumns
    /\ df = <<>>
    /\ pc = "idle"
    /\ idx = 0
    /\ open_positions = <<>>
    /\ positions = <<>>
    /\ err = "none"
    /\ ledger = <<>>
    /\ db = <<>>
    /\ new_positions = 0
    /\ ins = 0
    /\ uploads = 0
    /\ prev_positions = <<>>
    /\ db_before = <<>>
    /\ response = <<>>
    /\ all_files \in Folders
    /\ processed_files = <<>>
    /\ scan = [scans |-> 0, clears |-> 0, i |-> 0, processed |-> 0, skipped |-> 0,
               total_new_positions |-> 0, before |-> {}]

\* what no step of a scan changes
ScanFrame == UNCHANGED <<columns, df, idx, open_positions, ledger, uploads,
                         prev_positions, db_before, all_files>>

\* the request arrives, the glob finds nothing: "if not all_files: return"
ScanEmptyFolder ==
    /\ pc = "idle"
    /\ scan.scans < MaxScans
    /\ all_files = <<>>
    /\ scan' = [scan EXCEPT !.scans = @ + 1, !.before = DOMAIN processed_files]
    /\ response' = [message |-> "No CSV or Excel files found", processed |-> 0,
                    skipped |-> 0, total_positions |-> 0]
    /\ UNCHANGED <<pc, positions, err, db, new_positions, ins, processed_files>>
    /\ ScanFrame

\* the request arrives, the files are listed and the counters start at 0
ScanStart ==
    /\ pc = "idle"
    /\ scan.scans < MaxScans
    /\ all_files # <<>>
    /\ scan' = [scan EXCEPT !.scans = @ + 1, !.i = 1, !.processed = 0, !.skipped = 0,
                            !.total_new_positions = 0,
                            !.before = DOMAIN processed_files]
    /\ pc' = "file"
    /\ response' = <<>>
    /\ UNCHANGED <<positions, err, db, new_positions, ins, processed_files>>
    /\ ScanFrame

\* "if db.is_file_processed(filename): skipped += 1; continue"
ScanSkip ==
    /\ pc = "file"
    /\ scan.i <= Len(all_files)
    /\ is_file_processed(processed_files, all_files[scan.i].name)
    /\ scan' = [scan EXCEPT !.i = @ + 1, !.skipped = @ + 1]
    /\ UNCHANGED <<pc, positions, err, db, new_positions, ins, processed_files, response>>
    /\ ScanFrame

\* the file is read and parse_binance_csv returns; "new_positions = 0"
ScanParse ==
    /\ pc = "file"
    /\ scan.i <= Len(all_files)
    /\ ~is_file_processed(processed_files, all_files[scan.i].name)
    /\ \E r \in {ReadAndParse(all_files[scan.i])} :
           /\ r.err = "none"
           /\ positions' = r.positions
    /\ err' = "none"
    /\ new_positions' = 0
    /\ ins' = 1
    /\ pc' = "insert"
    /\ UNCHANGED <<db, processed_files, response, scan>>
    /\ ScanFrame

\* reading or parsing raises: the except clause prints and continues
ScanFileRaises ==
    /\ pc = "file"
    /\ scan.i <= Len(all_files)
    /\ ~is_file_processed(processed_files, all_files[scan.i].name)
    /\ \E r \in {ReadAndParse(all_files[scan.i])} :
           /\ r.err # "none"
           /\ err' = r.err
    /\ processed_files' = AfterException(processed_files, all_files[scan.i].name)
    /\ scan' = [scan EXCEPT !.i = @ + 1]
    /\ UNCHANGED <<pc, positions, db, new_positions, ins, response>>
    /\ ScanFrame

\* one iteration of "for position in positions"
ScanInsert ==
    /\ pc = "insert"
    /\ ins <= Len(positions)
    /\ \E r \in {insert_position(db, positions[ins])} :
           /\ db' = r.db
           /\ new_positions' = IF r.accepted THEN new_positions + 1 ELSE new_positions
    /\ ins' = ins + 1
    /\ UNCHANGED <<pc, positions, err, processed_files, response, scan>>
    /\ ScanFrame

\* after the loop: mark_file_processed, "processed += 1" and
\* "total_new_positions += new_positions"
ScanMark ==
    /\ pc = "insert"
    /\ ins > Len(positions)
    /\ processed_files' = mark_file_processed(processed_files, all_files[scan.i].name,
                                              all_files[scan.i].name, Len(positions))
    /\ scan' = [scan EXCEPT !.i = @ + 1, !.processed = @ + 1,
                            !.total_new_positions = @ + new_positions]
    /\ pc' = "file"
    /\ UNCHANGED <<positions, err, db, new_positions, ins, response>>
    /\ ScanFrame

\* the loop is over: the response
ScanReturn ==
    /\ pc = "file"
    /\ scan.i > Len(all_files)
    /\ response' = [message |-> "Folder scan complete", processed |-> scan.processed,
                    skipped |-> scan.skipped, total_files |-> Len(all_files),
                    new_positions |-> scan.total_new_positions]
    /\ pc' = "idle"
    /\ UNCHANGED <<positions, err, db, new_positions, ins, processed_files, scan>>
    /\ ScanFrame

\* DELETE /api/clear: clear_all_data deletes both tables
ClearData ==
    /\ pc = "idle"
    /\ scan.clears < MaxClears
    /\ db' = <<>>
    /\ processed_files' = <<>>
    /\ scan' = [scan EXCEPT !.clears = @ + 1]
    /\ response' = [message |-> "All data cleared successfully"]
    /\ UNCHANGED <<pc, positions, err, new_positions, ins>>
    /\ ScanFrame

NextScan ==
    \/ ScanEmptyFolder
    \/ ScanStart
    \/ ScanSkip
    \/ ScanParse
    \/ ScanFileRaises
    \/ ScanInsert
    \/ ScanMark
    \/ ScanReturn
    \/ ClearData

SpecScan == InitScan /\ [][NextScan]_vars

---------------------------------------------------------------------------
(* Properties of the reconstructor, checked under Spec *)

IsFutures == Dialect(columns) = "FUTURES"

\* the rows the loop has gone through
RowsDone == IF pc = "start" THEN {} ELSE {i \in DOMAIN df : i < idx}

\* the quantity cell of a row of either dialect
QuantityCell(row) == IF "Quantity" \in DOMAIN row THEN row.Quantity ELSE row.Qty

PositiveQuantity(row) == QuantityCell(row)[1] = "num" /\ Gt(QuantityCell(row)[2], Q(0))

ExitFields ==
    {"exit_time", "exit_price", "closed_at", "exit_fee", "fees", "net_pnl",
     "roi_percent", "duration_seconds"}

FloatFields == {"exit_price", "exit_fee", "fees", "net_pnl", "roi_percent"}

C2_UniqueIds ==
    IsFutures =>
        \A i, j \in DOMAIN positions : i # j => positions[i].id # positions[j].id

\* C5 (state part): while every row gone through has a positive quantity,
\* every lot in the table has total_quantity > 0.
C5_Positive ==
    (IsFutures /\ \A i \in RowsDone : PositiveQuantity(df[i]))
        => \A e \in DOMAIN open_positions :
              Gt(open_positions[e].pos.total_quantity, Q(0))

\* C5 (step part): a closing fill of quantity q on a lot of quantity t
\* removes the key when q/t >= 0.99 and otherwise leaves it with t - q.
C5_CloseStep ==
    (/\ IsFutures /\ pc = "loop" /\ pc' = "loop" /\ idx' = idx + 1 /\ idx <= Len(df)
     /\ RowCounts(df[idx]) /\ RowCloses(df[idx]) /\ PositiveQuantity(df[idx])
     /\ RowKey(df[idx]) \in Keys(open_positions)
     /\ Gt(Lookup(open_positions, RowKey(df[idx])).total_quantity, Q(0)))
    => LET k == RowKey(df[idx])
           q == Float(df[idx].Quantity)
           t == Lookup(open_positions, k).total_quantity
       IN  IF 100 * q[1] * t[2] >= 99 * t[1] * q[2]
           THEN k \notin Keys(open_positions')
           ELSE /\ k \in Keys(open_positions')
                /\ Lookup(open_positions', k).total_quantity = Sub(t, q)

\* C5: in the Futures dialect, for fills with positive quantities, every key
\* in the open-lot table has quantity > 0 after every row; a closing fill
\* with close_ratio >= 0.99 removes the key in that step and one with
\* close_ratio < 0.99 leaves the key with the quantity reduced by the fill.
C5_LotQuantities == []C5_Positive /\ [][C5_CloseStep]_vars

\* a lot has been closed in part, and another in full by a larger fill
C5_Witness ==
    /\ IsFutures /\ pc = "loop" /\ idx = 4
    /\ \A i \in RowsDone : PositiveQuantity(df[i])
    /\ Len(positions) = 2
    /\ Lt(positions[1].quantity, positions[1].total_quantity)
    /\ Gt(positions[2].quantity, positions[2].total_quantity)
    /\ open_positions = <<>>

\* C6: for every lot, the entry-fee shares allocated to the positions closed
\* from it so far plus the entry fee still held on the lot never exceed the
\* fees of its opening fills.
C6_FeeConservation ==
    \A k \in DOMAIN ledger :
        LET held == IF k \in Keys(open_positions)
                    THEN Lookup(open_positions, k).entry_fee ELSE Q(0)
        IN  (~IsNaN(ledger[k].allocated) /\ ~IsNaN(held) /\ ~IsNaN(ledger[k].paid))
                => Le(Add(ledger[k].allocated, held), ledger[k].paid)

\* C7 (state part): a lot that no fill has closed yet holds the sum of the
\* quantities and fees of its opening fills, the average price
\* sum(p*q)/sum(q), and the token and time of its first fill.
C7_Average ==
    IsFutures =>
        \A k \in Keys(open_positions) :
            LET lot == Lookup(open_positions, k)
                h   == ledger[k]
            IN  (h.closes = 0 /\ ~IsNaN(h.qty) /\ ~IsNaN(h.cost)) =>
                    /\ lot.total_quantity = h.qty
                    /\ lot.quantity = h.qty
                    /\ Mul(lot.entry_price, h.qty) = h.cost
                    /\ lot.entry_fee = h.paid
                    /\ lot.entry_time = isoformat(h.first.time)
                    /\ lot.id = LotId(k[1], k[2], h.first.time, h.first.price,
                                      h.first.quantity)

\* C7 (step part): an opening fill (q, p, fee) on a present key sets the
\* price to (avg*qty + p*q)/(qty + q), adds q and fee, and keeps the token
\* and the entry time; on an absent key it creates the lot from the fill.
C7_OpenStep ==
    (/\ IsFutures /\ pc = "loop" /\ pc' = "loop" /\ idx' = idx + 1 /\ idx <= Len(df)
     /\ RowCounts(df[idx]) /\ RowOpens(df[idx]) /\ ~IsNaN(Float(df[idx].Quantity)))
    => LET k   == RowKey(df[idx])
           q   == Float(df[idx].Quantity)
           p   == Float(df[idx].DealPrice)
           fee == AbsQ(Float(df[idx].Fee))
           new == Lookup(open_positions', k)
       IN  /\ k \in Keys(open_positions')
           /\ positions' = positions
           /\ IF k \in Keys(open_positions)
              THEN LET old == Lookup(open_positions, k)
                   IN  /\ Mul(new.entry_price, Add(old.total_quantity, q))
                            = Add(Mul(old.entry_price, old.total_quantity), Mul(p, q))
                       /\ new.total_quantity = Add(old.total_quantity, q)
                       /\ new.entry_fee = Add(old.entry_fee, fee)
                       /\ new.id = old.id
                       /\ new.entry_time = old.entry_time
              ELSE /\ new.total_quantity = q
                   /\ new.quantity = q
                   /\ new.entry_price = p
                   /\ new.entry_fee = fee
                   /\ new.entry_time = isoformat(df[idx].Time)

\* C7: in the Futures dialect an opening fill on an absent key creates a lot
\* with the fill's quantity, price, fee and time; on a present key it sets
\* the price to the quantity-weighted average, adds quantity and fee and
\* keeps token and entry time; so opening fills (q1,p1),(q2,p2) give
\* avg = (p1*q1+p2*q2)/(q1+q2) and quantity q1+q2.
C7_WeightedAverage == []C7_Average /\ [][C7_OpenStep]_vars

\* 2 @ 100 then 2 @ 110 on the same key: entry_price 105, quantity 4
C7_Witness ==
    /\ IsFutures /\ pc = "loop" /\ idx = 3
    /\ Float(df[1].DealPrice) = Q(100) /\ Float(df[1].Quantity) = Q(2)
    /\ Float(df[2].DealPrice) = Q(110) /\ Float(df[2].Quantity) = Q(2)
    /\ Len(open_positions) = 1
    /\ open_positions[1].pos.entry_price = Q(105)
    /\ open_positions[1].pos.quantity = Q(4)
    /\ open_positions[1].pos.total_quantity = Q(4)

\* a row of either dialect whose quantity is zero, empty (NaN) or no number
MalformedQuantity(row) == QuantityCell(row)[1] # "num" \/ IsZero(QuantityCell(row)[2])

\* C8: a malformed row (time unparseable, quantity zero or unparseable) is
\* dropped in both dialects: no error, and the open-lot table and the
\* emitted positions stay as they were.
C8_MalformedDropped ==
    [][/\ (/\ pc = "loop" /\ idx <= Len(df) /\ idx' = idx + 1
           /\ (MalformedQuantity(df[idx]) \/ df[idx].Time = NaT))
            => (err' = "none" /\ UNCHANGED <<open_positions, positions>>)
       /\ (/\ pc = "start"
           /\ \E i \in DOMAIN df : MalformedQuantity(df[i]) \/ df[i].Time[1] # "ts")
            => err' = "none"]_vars

\* the row at idx is a closing fill of its dialect on a lot in the table
\* whose average entry price is zero
ClosesZeroPricedLot ==
    /\ pc = "loop" /\ idx <= Len(df)
    /\ IF IsFutures
       THEN /\ RowCounts(df[idx]) /\ RowCloses(df[idx])
            /\ ~IsNaN(Float(df[idx].Quantity))
            /\ RowKey(df[idx]) \in Keys(open_positions)
            /\ IsZero(Lookup(open_positions, RowKey(df[idx])).entry_price)
       ELSE /\ ~FloatRaises(df[idx].Qty) /\ ~SimpleSkipsQuantity(Float(df[idx].Qty))
            /\ df[idx].Time # NaT
            /\ Upper(df[idx].Side) \in {"SELL", "SHORT"}
            /\ <<df[idx].Symbol>> \in Keys(open_positions)
            /\ IsZero(Lookup(open_positions, <<df[idx].Symbol>>).entry_price)

\* C9: a closing fill on a lot whose average entry price (and so its
\* notional) is zero raises nothing, in either dialect and in either PnL
\* branch: a CLOSED position with roi_percent 0 is emitted and the loop
\* goes on.
C9_NoDivisionError ==
    [][(ClosesZeroPricedLot /\ idx' = idx + 1)
       => /\ err' = "none"
          /\ pc' = "loop"
          /\ Len(positions') = Len(positions) + 1
          /\ positions'[Len(positions')].status = "CLOSED"
          /\ positions'[Len(positions')].roi_percent = Q(0)]_vars

\* C10: in the Futures dialect a closing fill whose key is not in the table
\* emits nothing, creates no lot, raises nothing and leaves every lot as it
\* was.
C10_OrphanClose ==
    [][(/\ pc = "loop" /\ idx <= Len(df) /\ idx' = idx + 1
        /\ IsFutures /\ RowCounts(df[idx]) /\ RowCloses(df[idx])
        /\ RowKey(df[idx]) \notin Keys(open_positions))
       => /\ err' = "none"
          /\ pc' = "loop"
          /\ UNCHANGED <<open_positions, positions>>]_vars

\* a closing fill has gone through while only the lot of the other
\* direction was in the table
C10_Witness ==
    /\ IsFutures /\ pc = "loop" /\ idx > 1
    /\ RowCounts(df[idx - 1]) /\ RowCloses(df[idx - 1])
    /\ positions = <<>>
    /\ Keys(open_positions) = {<<RowKey(df[idx - 1])[1],
                                 IF RowKey(df[idx - 1])[2] = "LONG" THEN "SHORT" ELSE "LONG">>}

\* the row at idx is a closing fill on a lot in the table, and the venue
\* reports no realized PnL for it (the cell is empty or 0)
ClosesWithoutVenuePnl ==
    /\ IsFutures /\ pc = "loop" /\ idx <= Len(df)
    /\ RowCounts(df[idx]) /\ RowCloses(df[idx])
    /\ RowKey(df[idx]) \in Keys(open_positions)
    /\ ~Ne(ParseRealizedPnl(df[idx].RealizedPNL), Q(0))

\* the position such a fill emits, its net_pnl and roi_percent written
\* either as computed or rounded to 2 decimals
ComputedClose(rounded) ==
    (ClosesWithoutVenuePnl /\ pc' = "loop" /\ idx' = idx + 1)
    => LET lot     == Lookup(open_positions, RowKey(df[idx]))
           avg     == lot.entry_price
           p       == Float(df[idx].DealPrice)
           q       == Float(df[idx].Quantity)
           fee     == AbsQ(Float(df[idx].Fee))
           lev     == Q(df[idx].Leverage[1])
           move    == IF RowKey(df[idx])[2] = "LONG" THEN Sub(p, avg) ELSE Sub(avg, p)
           pnl_pct == Mul(Div(move, avg), Q(100))
           net     == Sub(Div(Mul(Mul(Mul(avg, q), lev), pnl_pct), Q(100)), fee)
           e       == positions'[Len(positions')]
       IN  /\ Len(positions') = Len(positions) + 1
           /\ e.status = "CLOSED"
           /\ e.net_pnl = IF rounded THEN Round2(net) ELSE net
           /\ e.roi_percent = IF rounded THEN Round2(pnl_pct) ELSE pnl_pct
           /\ e.fees = Add(Mul(lot.entry_fee, Div(q, lot.total_quantity)), fee)

\* C11 (as amended): in the Futures dialect a closing fill that matches a
\* lot and carries no venue PnL emits a CLOSED position whose net_pnl is
\* avg*qty*leverage*pnl_pct/100 - fee rounded to 2 decimals, whose
\* roi_percent is pnl_pct rounded to 2 decimals (pnl_pct by direction), and
\* whose fees are entry_fee*close_ratio + fee.
C11_ComputedPnlRounded == [][ComputedClose(TRUE)]_vars

\* Open Long 1 @ 100 fee 1, then Close Long 1 @ 110 fee 1 at leverage 1:
\* net_pnl 9, roi_percent 10, fees 2
C11_Witness ==
    /\ IsFutures /\ pc = "loop" /\ idx = 3
    /\ df[1].Type = "Open Long" /\ df[2].Type = "Close Long"
    /\ Float(df[1].DealPrice) = Q(100) /\ Float(df[1].Quantity) = Q(1)
    /\ Float(df[2].DealPrice) = Q(110) /\ Float(df[2].Quantity) = Q(1)
    /\ df[2].RealizedPNL[1] = "nan" /\ df[2].Leverage[1] = 1
    /\ Len(positions) = 1
    /\ positions[1].net_pnl = Q(9)
    /\ positions[1].roi_percent = Q(10)
    /\ positions[1].fees = Q(2)

\* C11 (as stated): the emitted position's net_pnl and roi_percent are the
\* computed values themselves.
C11_ComputedPnlExact == [][ComputedClose(FALSE)]_vars

\* the indices of the OPEN positions of a list
OpenIndices(ps) == {i \in DOMAIN ps : ps[i].status = "OPEN"}

\* C13: at the end of the rows every lot still in the table is flushed as
\* exactly one OPEN position, the lot's own fields kept, with fees = the
\* lot's current entry fee, net_pnl = 0, roi_percent = 0, duration_seconds =
\* 0, exit_price = entry_price and closed_at = entry_time; no other OPEN
\* position is emitted, so the OPEN positions are as many as the keys left
\* in the table.  Both dialects.
C13_Flush ==
    [][(pc = "loop" /\ pc' = "returned")
       => /\ OpenIndices(positions) = {}
          /\ SubSeq(positions', 1, Len(positions)) = positions
          /\ Cardinality(OpenIndices(positions')) = Cardinality(Keys(open_positions))
          /\ Len(positions') = Len(positions) + Cardinality(Keys(open_positions))
          /\ \A k \in Keys(open_positions) :
                LET lot  == Lookup(open_positions, k)
                    mine == {i \in OpenIndices(positions') :
                                \A f \in DOMAIN lot : positions'[i][f] = lot[f]}
                IN  /\ Cardinality(mine) = 1
                    /\ \A i \in mine :
                          /\ positions'[i].fees = lot.entry_fee
                          /\ positions'[i].net_pnl = Q(0)
                          /\ positions'[i].roi_percent = Q(0)
                          /\ positions'[i].duration_seconds = 0
                          /\ positions'[i].exit_price = lot.entry_price
                          /\ positions'[i].closed_at = lot.entry_time]_vars

\* a lot closed in part and a lot of the other direction have been flushed:
\* the first with the half of its entry fee that it still holds
C13_Witness ==
    /\ pc = "returned"
    /\ Len(open_positions) = 2
    /\ Len(positions) = 3
    /\ positions[1].status = "CLOSED"
    /\ positions[2].status = "OPEN" /\ positions[2].direction = "LONG"
    /\ positions[2].fees = <<1, 2>>
    /\ positions[3].status = "OPEN" /\ positions[3].direction = "SHORT"

\* C14 (state part): no OPEN position precedes a CLOSED one, and the CLOSED
\* positions are in ascending order of close time.
C14_ClosedThenOpen ==
    \A i, j \in DOMAIN positions :
        (i < j /\ positions[j].status = "CLOSED")
            => /\ positions[i].status = "CLOSED"
               /\ positions[i].closed_at[1] = "iso"
               /\ positions[j].closed_at[1] = "iso"
               /\ positions[i].closed_at[2] <= positions[j].closed_at[2]

\* C14 (step part): a row of the loop leaves the list as it is or appends
\* one CLOSED position closed at the row's time.
C14_Append ==
    (pc = "loop" /\ pc' = "loop" /\ idx' = idx + 1)
        => \/ positions' = positions
           \/ /\ Len(positions') = Len(positions) + 1
              /\ SubSeq(positions', 1, Len(positions)) = positions
              /\ positions'[Len(positions')].status = "CLOSED"
              /\ positions'[Len(positions')].closed_at = isoformat(df[idx].Time)

\* C14: the output lists the CLOSED positions first, in the order of the
\* closing events that produced them (ascending close time), then the
\* flushed OPEN positions; no OPEN position precedes a CLOSED one.
C14_EmissionOrder == []C14_ClosedThenOpen /\ [][C14_Append]_vars

\* two closes of a lot and then the flush of what is left of it
C14_Witness ==
    /\ pc = "returned"
    /\ Len(positions) = 3
    /\ positions[1].status = "CLOSED"
    /\ positions[2].status = "CLOSED"
    /\ positions[3].status = "OPEN"

\* the row at idx is a Simple row of one of the given sides whose key has a
\* lot in the table
SimpleRowOnLot(sides) ==
    /\ ~IsFutures /\ pc = "loop" /\ idx <= Len(df)
    /\ Upper(df[idx].Side) \in sides
    /\ <<df[idx].Symbol>> \in Keys(open_positions)

\* C15: in the Simple dialect a BUY/LONG row for a key that already has a
\* lot is ignored: the table (the lot's quantity, entry price, entry fee,
\* entry time and token) and the emitted positions stay as they were, and a
\* row whose quantity is a number raises nothing.
C15_BuyIgnored ==
    [][(SimpleRowOnLot({"BUY", "LONG"}) /\ idx' = idx + 1)
       => /\ UNCHANGED <<open_positions, positions>>
          /\ PositiveQuantity(df[idx]) => (err' = "none" /\ pc' = "loop")]_vars

\* a second BUY of another price, quantity and fee has gone through, and the
\* lot is still the one the first BUY made
C15_Witness ==
    /\ ~IsFutures /\ pc = "loop" /\ idx = 3
    /\ Upper(df[1].Side) \in {"BUY", "LONG"} /\ Upper(df[2].Side) \in {"BUY", "LONG"}
    /\ PositiveQuantity(df[1]) /\ PositiveQuantity(df[2])
    /\ df[1].Price # df[2].Price /\ df[1].Qty # df[2].Qty /\ df[1].Fee # df[2].Fee
    /\ positions = <<>>
    /\ Len(open_positions) = 1
    /\ open_positions[1].pos.entry_price = Float(df[1].Price)
    /\ open_positions[1].pos.quantity = Float(df[1].Qty)
    /\ open_positions[1].pos.entry_fee = Float(df[1].Fee)

\* C16: in the Simple dialect a SELL/SHORT row for a key with a lot closes
\* the whole lot whatever the row's quantity: one CLOSED position is
\* emitted with net_pnl = 10000*pnl_pct/100 - entry_fee - exit_fee (pnl_pct
\* by the lot's direction), and the key is not in the table afterwards.
C16_SellClosesLot ==
    [][(SimpleRowOnLot({"SELL", "SHORT"}) /\ PositiveQuantity(df[idx]) /\ idx' = idx + 1)
       => LET lot     == Lookup(open_positions, <<df[idx].Symbol>>)
              price   == Float(df[idx].Price)
              move    == IF lot.direction = "LONG" THEN Sub(price, lot.entry_price)
                         ELSE Sub(lot.entry_price, price)
              pnl_pct == Mul(Div(move, lot.entry_price), Q(100))
              e       == positions'[Len(positions')]
          IN  /\ err' = "none"
              /\ pc' = "loop"
              /\ Len(positions') = Len(positions) + 1
              /\ e.status = "CLOSED"
              /\ e.net_pnl = Sub(Sub(Div(Mul(Q(10000), pnl_pct), Q(100)), lot.entry_fee),
                                 Float(df[idx].Fee))
              /\ <<df[idx].Symbol>> \notin Keys(open_positions')]_vars

---------------------------------------------------------------------------
(* Properties of repeated ingestion, checked under SpecUpload *)

\* C3: ingesting the positions reconstructed from the same rows a second
\* time raises nothing, reports new_positions = 0 and duplicates_skipped =
\* the number of positions reconstructed, and leaves the table as the first
\* ingestion left it.
C3_Reingest ==
    /\ (uploads >= 2 /\ pc \in {"insert", "responded"}) =>
          /\ err = "none"
          /\ new_positions = 0
          /\ db = db_before
          /\ (pc = "responded" => duplicates_skipped = Len(positions))
    /\ (uploads >= 2 /\ pc = "http500") => db = <<>>

\* the second upload of a file of several positions has been answered
C3_Witness ==
    /\ pc = "responded"
    /\ uploads = 2
    /\ Len(positions) >= 2
    /\ Len(db) >= 2
    /\ Len(db) < Len(positions)

---------------------------------------------------------------------------
(* Properties of the processing order, checked under SpecOrder *)

\* C12: for rows with pairwise distinct timestamps, every order in which
\* the rows are supplied yields the same emitted position sequence (and the
\* same outcome, an error or none).
C12_OrderIndependent ==
    [][(pc = "parsed" /\ pc' = "reparsed")
       => (positions' = positions /\ err' = err)]_vars

\* three rows supplied latest first have been parsed to a CLOSED and an OPEN
\* position
C12_Witness ==
    /\ pc = "reparsed"
    /\ Len(df) = 3
    /\ \A i \in 1..3 : df[i].Time[1] = "ts"
    /\ df[1].Time[2] > df[2].Time[2] /\ df[2].Time[2] > df[3].Time[2]
    /\ Len(positions) = 2
    /\ positions[1].status = "CLOSED"
    /\ positions[2].status = "OPEN"

---------------------------------------------------------------------------
(* Properties of the store under concurrent calls, checked under            *)
(* SpecConcurrent                                                           *)

\* the natural key of a row of the table
NaturalKey(r) == <<r.symbol, r.entry_time, r.entry_price, r.quantity>>

\* C17: under any interleaving of concurrent insert_position calls the
\* table never holds two positions with the same natural key (symbol,
\* entry_time, entry_price, quantity) nor two with the same id.
C17_NoConcurrentDuplicates ==
    \A i, j \in DOMAIN db :
        i # j => /\ NaturalKey(db[i]) # NaturalKey(db[j])
                 /\ db[i].id # db[j].id

---------------------------------------------------------------------------
(* Properties of the aggregators, checked under SpecStats *)

\* the stored rows that are CLOSED
ClosedRows == {i \in DOMAIN db : db[i].status = "CLOSED"}

\* a column of the store added up over a set of rows
RECURSIVE FieldTotal(_, _)
FieldTotal(S, field) ==
    IF S = {} THEN Q(0)
    ELSE LET i == CHOOSE j \in S : TRUE
         IN  Add(db[i][field], FieldTotal(S \ {i}, field))

\* C18 as stated: over a non-empty store the summary's total_pnl is the sum
\* of net_pnl over the CLOSED positions, rounded to 2 decimals, with nothing
\* from fees or OPEN positions in it.
C18_TotalPnlIsClosedNet ==
    (pc = "stats" /\ db # <<>>)
        => response.total_pnl = Round2(FieldTotal(ClosedRows, "net_pnl"))

\* C18, amended: over a non-empty store the summary's net_pnl is the sum of
\* net_pnl over the CLOSED positions, rounded to 2 decimals, and its
\* total_pnl is that sum plus the fees of every position, OPEN ones
\* included, rounded to 2 decimals.
C18_NetAndGross ==
    (pc = "stats" /\ db # <<>>)
        => /\ response.net_pnl = Round2(FieldTotal(ClosedRows, "net_pnl"))
           /\ response.total_pnl = Round2(Add(FieldTotal(ClosedRows, "net_pnl"),
                                              FieldTotal(DOMAIN db, "fees")))

\* a summary over closed positions and an OPEN one that has paid a fee
C18_Witness ==
    /\ pc = "stats"
    /\ Cardinality(ClosedRows) >= 2
    /\ \E i \in DOMAIN db : db[i].status = "OPEN" /\ Gt(db[i].fees, Q(0))
    /\ response.total_pnl # response.net_pnl

\* the stored CLOSED rows that gained, and those that lost
Winners == {i \in ClosedRows : Gt(db[i].net_pnl, Q(0))}
Losers == {i \in ClosedRows : Lt(db[i].net_pnl, Q(0))}

\* winners / closed_count * 100, or 0 with no closed position
ExactWinRate ==
    IF ClosedRows = {} THEN Q(0)
    ELSE Norm(100 * Cardinality(Winners), Cardinality(ClosedRows))

\* the counting half of C19: winning_trades and losing_trades count the
\* CLOSED positions above and below 0, and together they fall short of
\* total_trades exactly when some CLOSED position is at 0
WinnersAndLosers ==
    /\ response.total_trades = Cardinality(ClosedRows)
    /\ response.winning_trades = Cardinality(Winners)
    /\ response.losing_trades = Cardinality(Losers)
    /\ response.winning_trades + response.losing_trades <= response.total_trades
    /\ (response.winning_trades + response.losing_trades = response.total_trades)
           <=> ~\E i \in ClosedRows : db[i].net_pnl = Q(0)

\* C19 as stated: the counts are as above and win_rate is
\* winning_trades / total_trades * 100, 0 when nothing is CLOSED.
C19_WinRateExact ==
    (pc = "stats" /\ db # <<>>)
        => /\ WinnersAndLosers
           /\ response.win_rate = ExactWinRate

\* C19, amended: the counts are as above and win_rate is
\* winning_trades / total_trades * 100 rounded to 2 decimals, 0 when
\* nothing is CLOSED.
C19_WinRateRounded ==
    (pc = "stats" /\ db # <<>>)
        => /\ WinnersAndLosers
           /\ response.win_rate = Round2(ExactWinRate)

\* one winner among three closed positions, one of them at exactly 0
C19_Witness ==
    /\ pc = "stats"
    /\ Cardinality(ClosedRows) = 3
    /\ Cardinality(Winners) = 1
    /\ Cardinality(Losers) = 1
    /\ response.win_rate = <<3333, 100>>

\* the ways of taking the stored CLOSED rows in ascending close-time order
CloseOrders ==
    {o \in [1..Cardinality(ClosedRows) -> ClosedRows] :
        /\ \A i, j \in DOMAIN o : i # j => o[i] # o[j]
        /\ \A i, j \in DOMAIN o :
               i < j => db[o[i]].closed_at[2] <= db[o[j]].closed_at[2]}

\* C20: the equity curve has one point per CLOSED position and none for an
\* OPEN one; with the CLOSED positions taken in ascending close-time order
\* the k-th point has pnl = the k-th position's net_pnl and equity = 10000 +
\* the net_pnl of the first k, so the last equity is 10000 + the total
\* closed net PnL.
C20_EquityCurve ==
    pc = "chart" =>
        LET curve == response.equity_curve
        IN  /\ Len(curve) = Cardinality(ClosedRows)
            /\ \E o \in CloseOrders :
                   \A k \in DOMAIN o :
                       /\ curve[k].pnl = db[o[k]].net_pnl
                       /\ curve[k].equity =
                              Add(Q(10000), FieldTotal({o[j] : j \in 1..k}, "net_pnl"))
            /\ curve # <<>> =>
                   curve[Len(curve)].equity =
                       Add(Q(10000), FieldTotal(ClosedRows, "net_pnl"))

\* a curve over two positions the store returned latest close first, with an
\* OPEN position beside them
C20_Witness ==
    /\ pc = "chart"
    /\ Len(response.equity_curve) = 2
    /\ \E i \in DOMAIN db : db[i].status = "OPEN"
    /\ \E i, j \in DOMAIN positions :
           /\ i < j
           /\ positions[i].status = "CLOSED"
           /\ positions[j].status = "CLOSED"
           /\ positions[i].closed_at[2] > positions[j].closed_at[2]
    /\ response.equity_curve[1].equity # response.equity_curve[2].equity

\* C21: over an empty store neither aggregator raises; calculate_stats
\* answers the summary with every field 0, and calculate_chart_data answers
\* empty equity_curve, daily_pnl and pair_distribution lists and a long and
\* a short entry of count 0, pnl 0 and win_rate 0.
C21_EmptyShapes ==
    db = <<>> =>
        /\ pc # "http500"
        /\ err = "none"
        /\ pc = "stats" =>
               /\ DOMAIN response =
                      {"total_positions", "total_trades", "net_pnl", "total_pnl",
                       "total_fees", "total_volume", "win_rate", "winning_trades",
                       "losing_trades", "avg_win", "avg_loss"}
               /\ \A f \in {"total_positions", "total_trades", "total_volume",
                             "winning_trades", "losing_trades"} : response[f] = 0
               /\ \A f \in {"net_pnl", "total_pnl", "total_fees", "win_rate",
                             "avg_win", "avg_loss"} : IsZero(response[f])
        /\ pc = "chart" =>
               /\ response.equity_curve = <<>>
               /\ response.daily_pnl = <<>>
               /\ response.pair_distribution = <<>>
               /\ \A side \in {"long", "short"} :
                      /\ response.long_vs_short[side].count = 0
                      /\ IsZero(response.long_vs_short[side].pnl)
                      /\ IsZero(response.long_vs_short[side].win_rate)

\* the chart data of an empty store, asked for after its summary
C21_Witness ==
    /\ db = <<>>
    /\ pc = "chart"
    /\ positions = <<>>
    /\ DOMAIN response.long_vs_short = {"long", "short"}

---------------------------------------------------------------------------
(* Further properties of the reconstructor, checked under Spec *)

\* C22: in the Futures dialect an OPEN position flushed at the end reports
\* as its quantity what is left of its lot: the quantities of the lot's
\* opening fills less those of the partial closes applied to it.
C22_RemainingQuantity ==
    (IsFutures /\ pc = "returned") =>
        \A i \in OpenIndices(positions) :
            LET h == ledger[<<positions[i].pair, positions[i].direction>>]
            IN  ~IsNaN(h.qty) => positions[i].quantity = Sub(h.qty, h.closed)

---------------------------------------------------------------------------
(* Further properties of the store, checked under SpecUpload *)

\* C23: the first upload into the empty store accepts every position of a
\* reconstruction whose ids are all distinct: new_positions is the number of
\* positions emitted and duplicates_skipped is 0.
C23_FirstIngestAcceptsAll ==
    (pc = "responded" /\ uploads = 1
        /\ \A i, j \in DOMAIN positions : i # j => positions[i].id # positions[j].id)
    => /\ new_positions = Len(positions)
       /\ duplicates_skipped = 0

\* every stored row is still stored, in its place and with its values
StoredRowsKept == \A i \in DOMAIN db : i \in DOMAIN db' /\ db'[i] = db[i]

\* an insert_position call that returned False left the table as it was
RejectedInsertInert ==
    (pc = "insert" /\ ins' = ins + 1 /\ new_positions' = new_positions) => db' = db

---------------------------------------------------------------------------
(* Properties of the folder scan, checked under SpecScan *)

\* the file the loop of the running scan is at
CurrentFile == all_files[scan.i]

\* reading or parsing the file raises
FileRaises(file) == ReadAndParse(file).err # "none"

\* a step that writes to the processed-file table does so for the current
\* file alone, after the file has been parsed and each of its positions
\* has been offered to insert_position
RecordedAfterOffers ==
    (processed_files' # processed_files /\ processed_files' # <<>>)
    => /\ pc = "insert"
       /\ ~FileRaises(CurrentFile)
       /\ positions = ReadAndParse(CurrentFile).positions
       /\ ins = Len(positions) + 1
       /\ DOMAIN processed_files' = DOMAIN processed_files \cup {CurrentFile.name}

\* at a file that raises, the scan records nothing, skips nothing and goes
\* on to the next file
FailureContinues ==
    (/\ pc = "file"
     /\ scan.i <= Len(all_files)
     /\ CurrentFile.name \notin DOMAIN processed_files
     /\ FileRaises(CurrentFile)
     /\ scan' # scan)
    => /\ processed_files' = processed_files
       /\ db' = db
       /\ pc' = "file"
       /\ scan'.i = scan.i + 1
       /\ scan'.skipped = scan.skipped
       /\ scan'.processed = scan.processed

\* a file that raises is never in the table, so no scan skips it
FailedNeverRecorded ==
    \A i \in DOMAIN all_files :
        FileRaises(all_files[i]) => all_files[i].name \notin DOMAIN processed_files

\* C25: scan-folder records a file name only after every position
\* reconstructed from the file has been offered to the store; a file whose
\* reading or parsing raises is not recorded, does not stop the scan of the
\* files after it, and is attempted again by the next scan.
C25_RecordedAfterOffers ==
    /\ [][RecordedAfterOffers]_vars
    /\ [][FailureContinues]_vars
    /\ []FailedNeverRecorded

\* the second scan of a folder whose first file raises and whose second
\* holds two positions: the second file is skipped, the first was tried again
C25_Witness ==
    /\ pc = "idle"
    /\ scan.scans = 2
    /\ Len(all_files) = 2
    /\ FileRaises(all_files[1])
    /\ err # "none"
    /\ DOMAIN processed_files = {all_files[2].name}
    /\ processed_files[all_files[2].name].positions_count = 2
    /\ response.processed = 0
    /\ response.skipped = 1
    /\ response.total_files = 2

\* at a file whose name is in the table the scan counts it as skipped and
\* neither parses it nor inserts from it nor writes to the table
RecordedIsSkipped ==
    (/\ pc = "file"
     /\ scan.i <= Len(all_files)
     /\ CurrentFile.name \in DOMAIN processed_files
     /\ scan' # scan)
    => /\ scan'.skipped = scan.skipped + 1
       /\ scan'.i = scan.i + 1
       /\ scan'.processed = scan.processed
       /\ scan'.total_new_positions = scan.total_new_positions
       /\ pc' = "file"
       /\ positions' = positions
       /\ db' = db
       /\ processed_files' = processed_files

\* a name stays in the table until clear_all_data
RecordedStays ==
    \A f \in DOMAIN processed_files :
        f \in DOMAIN processed_files' \/ (processed_files' = <<>> /\ db' = <<>>)

\* the files of the folder whose names were in the table when the scan began
KnownAtStart == {i \in DOMAIN all_files : all_files[i].name \in scan.before}

\* the answer of a finished scan: the files known at its start are the
\* skipped ones; with every file known, nothing is processed or inserted
SkippedInResponse ==
    (pc = "idle" /\ "total_files" \in DOMAIN response)
    => /\ response.skipped = Cardinality(KnownAtStart)
       /\ response.total_files = Len(all_files)
       /\ KnownAtStart = DOMAIN all_files
              => /\ response.processed = 0
                 /\ response.skipped = response.total_files
                 /\ response.new_positions = 0

\* the answer of a scan that found no file
EmptyFolderResponse ==
    (pc = "idle" /\ "total_positions" \in DOMAIN response)
    => /\ all_files = <<>>
       /\ response.processed = 0
       /\ response.skipped = 0
       /\ response.total_positions = 0

\* clear_all_data leaves both tables empty
ClearEmptiesBoth ==
    scan'.clears # scan.clears => (db' = <<>> /\ processed_files' = <<>>)

\* a scan begun on the empty table skips no file
AfterClearNothingSkipped ==
    (pc = "idle" /\ "total_files" \in DOMAIN response /\ scan.before = {})
    => response.skipped = 0

\* C26: once a file name is in the processed-file table no later scan
\* reconstructs or inserts positions from a file of that name until
\* clear_all_data: the file is counted as skipped, so a scan of a folder
\* whose files are all recorded answers processed = 0, skipped = total_files
\* and new_positions = 0; clear_all_data empties the positions and the
\* table, and the scan after it skips nothing.
C26_ProcessedSkipped ==
    /\ [][RecordedIsSkipped]_vars
    /\ [][RecordedStays]_vars
    /\ [][ClearEmptiesBoth]_vars
    /\ []SkippedInResponse
    /\ []EmptyFolderResponse
    /\ []AfterClearNothingSkipped

\* a folder of two good files scanned a second time: both files are
\* skipped and the store is as the first scan left it
C26_Witness ==
    /\ pc = "idle"
    /\ scan.scans = 2
    /\ scan.clears = 0
    /\ "total_files" \in DOMAIN response
    /\ response.total_files = 2
    /\ response.processed = 0
    /\ response.skipped = 2
    /\ response.new_positions = 0
    /\ DOMAIN processed_files = {all_files[1].name, all_files[2].name}
    /\ db # <<>>

---------------------------------------------------------------------------
(* Durations, checked under Spec *)

\* a Simple row that the loop reads as an opening, or as a closing, fill
SimpleOpens(row) ==
    /\ ~FloatRaises(row.Qty) /\ ~SimpleSkipsQuantity(Float(row.Qty))
    /\ Upper(row.Side) \in {"BUY", "LONG"}
SimpleCloses(row) ==
    /\ ~FloatRaises(row.Qty) /\ ~SimpleSkipsQuantity(Float(row.Qty))
    /\ Upper(row.Side) \in {"SELL", "SHORT"}

\* the time of the first opening fill of the lot the current row closes:
\* in the Futures dialect the history of the key has it; in the Simple
\* dialect it is the first opening row on the symbol after the last
\* closing row before this one
FirstFillTime ==
    IF IsFutures THEN ledger[RowKey(df[idx])].first.time
    ELSE LET mine     == {m \in 1..(idx - 1) : df[m].Symbol = df[idx].Symbol}
             lastSell == CHOOSE n \in {0} \cup {m \in mine : SimpleCloses(df[m])} :
                            \A m \in mine : SimpleCloses(df[m]) => m <= n
             opens    == {m \in mine : m > lastSell /\ SimpleOpens(df[m])}
         IN  df[CHOOSE n \in opens : \A m \in opens : n <= m].Time

\* a row has just emitted a CLOSED position: its duration_seconds is the
\* row's time less the time of the first opening fill of the lot
DurationOnClose ==
    (pc = "loop" /\ pc' = "loop" /\ Len(positions') = Len(positions) + 1)
    => LET p == positions'[Len(positions')]
       IN  /\ p.status = "CLOSED"
           /\ p.duration_seconds = df[idx].Time - FirstFillTime

\* no CLOSED position has a negative duration
DurationNotNegative ==
    \A i \in DOMAIN positions :
        positions[i].status = "CLOSED" => positions[i].duration_seconds >= 0

\* C27: every CLOSED position's duration_seconds is the whole seconds from
\* the first opening fill of its lot to the closing row, whatever fills
\* were averaged in later, and is never negative; both dialects.
C27_Duration == [][DurationOnClose]_vars /\ []DurationNotNegative

\* a lot opened at one time, added to at a later one and closed then: the
\* duration runs from the first fill
C27_Witness ==
    /\ IsFutures
    /\ pc = "returned"
    /\ Len(df) = 3
    /\ RowOpens(df[1]) /\ RowOpens(df[2]) /\ RowCloses(df[3])
    /\ RowKey(df[1]) = RowKey(df[2]) /\ RowKey(df[2]) = RowKey(df[3])
    /\ df[1].Time < df[2].Time
    /\ Len(positions) >= 1
    /\ positions[1].status = "CLOSED"
    /\ positions[1].duration_seconds = df[3].Time - df[1].Time
    /\ positions[1].duration_seconds > 0

===========================================================================
